---- MODULE Spec2Model ----
(***************************************************************************)
(* Model of the grid core of stevma: validation of a grid description,     *)
(* enumeration of the meshgrid (create_meshgrid_from_dict), creation of    *)
(* the collection of models and its partition into jobs (split_grid).      *)
(***************************************************************************)
EXTENDS Integers, Sequences, FiniteSets, TLC

\* ------------------------------------------------------------------------
\* Bounds of the model
\* ------------------------------------------------------------------------
MaxLen == 2
MaxGroups == 2
MaxOptsPerGroup == 2
MaxConds == 2
MaxJobs == 2
MaxRuns == 5
MaxSplit == 4
MaxRows == 3
MaxPart == 3

\* ------------------------------------------------------------------------
\* Python values.  A value is its type and its str() text.
\* ------------------------------------------------------------------------
IntVal(s) == [t |-> "int", v |-> s]
FloatVal(s) == [t |-> "float", v |-> s]
StrVal(s) == [t |-> "str", v |-> s]

IntTexts == <<"1", "2", "3", "4", "5">>
StrTexts == <<"x", "y", "z", "u", "w">>

IntList(n) == [i \in 1..n |-> IntVal(IntTexts[i])]
StrList(n) == [i \in 1..n |-> StrVal(StrTexts[i])]

\* the == of Python between two values
PyEq(x, y) ==
    CASE x.t = y.t -> x.v = y.v
      [] x.t = "int" /\ y.t = "float" -> y.v = x.v \o ".0"
      [] x.t = "float" /\ y.t = "int" -> x.v = y.v \o ".0"
      [] OTHER -> FALSE

\* an option of a grid description holds a scalar or a list of scalars
Scalar(x) == [list |-> FALSE, vals |-> <<x>>]
List(s) == [list |-> TRUE, vals |-> s]

\* values of the options of the descriptions fed to the enumeration alone
ValueChoices ==
    {Scalar(IntVal("1")), List(<< >>), List(StrList(2)), List(<<IntVal("1"), IntVal("1")>>)}
      \cup {List(IntList(n)) : n \in 2..MaxLen}

\* values of the options of the descriptions fed to the whole driver
DriverValueChoices == {Scalar(IntVal("1")), List(IntList(2)), List(StrList(2))}

\* ------------------------------------------------------------------------
\* Namelists and the catalog of defaults
\* ------------------------------------------------------------------------
star_namelists == <<"star_job", "controls", "pgstar", "eos", "kap">>
binary_namelists == <<"binary_job", "binary_controls">>
bin2dco_namelists == <<"bin2dco_controls">>

Range(s) == {s[i] : i \in DOMAIN s}

\* names of the options of each namelist found in the *.defaults files
MESADefaults ==
    [nl \in Range(star_namelists) \cup Range(binary_namelists) |->
        CASE nl = "controls" -> {"initial_z", "m1"}
          [] nl = "binary_controls" -> {"m1", "m2"}
          [] OTHER -> {}]

GroupKeys == {"controls", "binary_controls", "bin2dco_controls"}
OptionKeys == {"m1", "m2", "initial_z"}

\* ------------------------------------------------------------------------
\* Grid descriptions: a dict namelist -> (dict option -> scalar or list),
\* kept as sequences in the iteration order of the dicts
\* ------------------------------------------------------------------------
DistinctNames(s) == \A i, j \in DOMAIN s : i # j => s[i].name # s[j].name

\* the dicts of at most n options with keys in keys and values in values
OptionDicts(n, keys, values) ==
    {s \in UNION {[1..k -> [name : keys, values : values]] : k \in 0..n} : DistinctNames(s)}

Min(a, b) == IF a < b THEN a ELSE b

\* descriptions of any namelist and option name, valid or not
RECURSIVE AnyGroupDicts(_, _, _)
AnyGroupDicts(k, budget, used) ==
    IF k = 0 THEN {<< >>}
    ELSE {<< >>} \cup
         UNION {
           {<<[name |-> g, options |-> o]>> \o rest :
              rest \in AnyGroupDicts(k - 1, budget - Len(o), used \cup {g})} :
           g \in GroupKeys \ used,
           o \in OptionDicts(Min(budget, MaxOptsPerGroup), OptionKeys, DriverValueChoices)}

\* descriptions that pass the validation: namelists and options of the catalog
RECURSIVE ValidGroupDicts(_, _, _)
ValidGroupDicts(k, budget, used) ==
    IF k = 0 THEN {<< >>}
    ELSE {<< >>} \cup
         UNION {
           UNION {
             {<<[name |-> g, options |-> o]>> \o rest :
                rest \in ValidGroupDicts(k - 1, budget - Len(o), used \cup {g})} :
             o \in OptionDicts(Min(budget, MaxOptsPerGroup), MESADefaults[g], ValueChoices)} :
           g \in (GroupKeys \cap DOMAIN MESADefaults) \ used}

\* at most one option per option name of the catalog in a description fed to the
\* enumeration, at most one option per namelist on average in one fed to the driver
MaxOptions == Cardinality(OptionKeys)
MaxDriverOptions == MaxGroups

\* the descriptions of at most k namelists
DriverDescriptions(k) == AnyGroupDicts(k, MaxDriverOptions, {})
GridDescriptions(k) == ValidGroupDicts(k, MaxOptions, {})

\* ------------------------------------------------------------------------
\* check_for_valid_namelist_options
\* ------------------------------------------------------------------------
namelists == star_namelists \o binary_namelists

\* inner loop over the options of one namelist: is some subkey not a default
HasInvalidOption(g) ==
    \E i \in DOMAIN g.options : g.options[i].name \notin MESADefaults[g.name]

\* a loop in which every namelist sets the flag anew, so that the last one decides
RECURSIVE CheckLoopLastDecides(_, _, _)
CheckLoopLastDecides(desc, i, ok) ==
    IF i > Len(desc) THEN ok
    ELSE IF desc[i].name \notin Range(namelists) THEN FALSE
    ELSE CheckLoopLastDecides(desc, i + 1, ~HasInvalidOption(desc[i]))

\* the outer loop, from group i on, with the flag as it stands
RECURSIVE CheckLoop(_, _, _)
CheckLoop(desc, i, ok) ==
    IF i > Len(desc) THEN ok
    ELSE IF desc[i].name \notin Range(namelists) THEN FALSE
    ELSE CheckLoop(desc, i + 1, IF HasInvalidOption(desc[i]) THEN FALSE ELSE ok)

check_for_valid_namelist_options(desc) == CheckLoop(desc, 1, TRUE)

\* ------------------------------------------------------------------------
\* get_number_of_gridpoints
\* ------------------------------------------------------------------------
RECURSIVE FlatOptions(_)
FlatOptions(desc) ==
    IF desc = << >> THEN << >> ELSE desc[1].options \o FlatOptions(Tail(desc))

RECURSIVE GridpointsLoop(_, _)
GridpointsLoop(opts, n) ==
    IF opts = << >> THEN n
    ELSE GridpointsLoop(Tail(opts),
                        IF opts[1].values.list THEN n * Len(opts[1].values.vals) ELSE n)

get_number_of_gridpoints(desc) == GridpointsLoop(FlatOptions(desc), 1)

\* ------------------------------------------------------------------------
\* create_meshgrid_from_dict
\* ------------------------------------------------------------------------
\* a Python dict as the sequence of its items, in insertion order
DictHas(dct, name) == \E i \in DOMAIN dct : dct[i].name = name
DictGet(dct, name) == dct[CHOOSE i \in DOMAIN dct : dct[i].name = name].val
DictPut(dct, name, val) ==
    IF DictHas(dct, name)
    THEN [i \in DOMAIN dct |-> IF dct[i].name = name THEN [name |-> name, val |-> val] ELSE dct[i]]
    ELSE Append(dct, [name |-> name, val |-> val])

\* option_names: every option of every namelist, in iteration order
OptionNamesOf(desc) == [i \in DOMAIN FlatOptions(desc) |-> FlatOptions(desc)[i].name]

\* tmpDict: option -> values (a scalar wrapped in a list), one key per name
RECURSIVE TmpDictLoop(_, _)
TmpDictLoop(opts, acc) ==
    IF opts = << >> THEN acc
    ELSE TmpDictLoop(Tail(opts), DictPut(acc, opts[1].name, opts[1].values.vals))

TmpDictOf(desc) == TmpDictLoop(FlatOptions(desc), << >>)

\* numpy: the dtype of an array made of values of several types
DTypeRank(t) == CASE t = "int" -> 1 [] t = "float" -> 2 [] t = "str" -> 3
DTypeMax(t1, t2) == IF DTypeRank(t1) >= DTypeRank(t2) THEN t1 ELSE t2

RECURSIVE DTypeOfValues(_, _)
DTypeOfValues(vals, acc) ==
    IF vals = << >> THEN acc
    ELSE DTypeOfValues(Tail(vals), DTypeMax(acc, vals[1].t))

\* np.asanyarray of one list: an empty list is a float64 array
DTypeOfList(vals) == IF vals = << >> THEN "float" ELSE DTypeOfValues(vals, "int")

RECURSIVE CommonDType(_, _)
CommonDType(cols, acc) ==
    IF cols = << >> THEN acc
    ELSE CommonDType(Tail(cols), DTypeMax(acc, DTypeOfList(cols[1].val)))

\* numpy: an element stored in an array of dtype dt
Cast(x, dt) ==
    CASE x.t = dt -> x
      [] x.t = "int" /\ dt = "float" -> FloatVal(x.v \o ".0")
      [] dt = "str" -> StrVal(x.v)
      [] OTHER -> x

\* np.meshgrid(..., indexing='ij'): the axes follow the arguments
AxisOrderIJ(n) == [p \in 1..n |-> p]

\* np.meshgrid(..., indexing='xy'): the first two axes are swapped
AxisOrder(n) ==
    IF n >= 2 THEN [p \in 1..n |-> IF p = 1 THEN 2 ELSE IF p = 2 THEN 1 ELSE p]
    ELSE [p \in 1..n |-> p]

RECURSIVE ProductOfDims(_, _, _)
ProductOfDims(cols, order, p) ==
    IF p > Len(order) THEN 1
    ELSE Len(cols[order[p]].val) * ProductOfDims(cols, order, p + 1)

\* element.flatten() of column j at flat index k (C order over the axes)
FlatElement(cols, j, k) ==
    LET order == AxisOrder(Len(cols))
        p == CHOOSE q \in DOMAIN order : order[q] = j
        stride == ProductOfDims(cols, order, p + 1)
        dim == Len(cols[j].val)
    IN  cols[j].val[((k \div stride) % dim) + 1]

\* grid = np.column_stack(...): row k (from 0) holds one element per column
GridLen(cols) == ProductOfDims(cols, AxisOrder(Len(cols)), 1)
GridRow(cols, dt, k) == [j \in DOMAIN cols |-> Cast(FlatElement(cols, j, k), dt)]

\* the inner loop of lines 112-113: one update per entry of option_names
RECURSIVE RowDictLoop(_, _, _, _)
RowDictLoop(names, row, j, acc) ==
    IF j > Len(names) THEN acc
    ELSE RowDictLoop(names, row, j + 1, DictPut(acc, names[j], row[j]))

\* condition predicates handed to create_meshgrid_from_dict
\* lambda d: True and lambda d: d.get("m1") == 1
Conditions == {"always", "m1_is_1"}
CondHolds(c, row) ==
    CASE c = "always" -> TRUE
      [] c = "m1_is_1" -> DictHas(row, "m1") /\ PyEq(DictGet(row, "m1"), IntVal("1"))

ConditionLists == UNION {[1..n -> Conditions] : n \in 0..MaxConds}

\* the runs of a dict of runs are records [key, row]; the key f"{k}" is kept as k
HasKey(runs, key) == \E i \in DOMAIN runs : runs[i].key = key
SelectSeqKeyNot(runs, key) == SelectSeq(runs, LAMBDA r : r.key # key)

\* lines 74-114: the meshgrid before the conditions are applied
EnumeratedRuns(desc) ==
    LET N == get_number_of_gridpoints(desc)
        names == OptionNamesOf(desc)
        cols == TmpDictOf(desc)
        dt == CommonDType(cols, "int")
        len == GridLen(cols)
    IN  [i \in 1..N |->
           [key |-> i - 1,
            row |-> IF i - 1 < len
                    THEN RowDictLoop(names, GridRow(cols, dt, i - 1), 1, << >>)
                    ELSE << >>]]

\* the exception raised by lines 104-114, if any
EnumerationError(desc) ==
    LET N == get_number_of_gridpoints(desc)
        names == OptionNamesOf(desc)
        cols == TmpDictOf(desc)
    IN  IF Len(cols) = 0 THEN "ValueError"            \* np.column_stack of no array
        ELSE IF GridLen(cols) = 0 THEN "none"
        ELSE IF N = 0 THEN "AttributeError"           \* meshgrid.get("0") is None
        ELSE IF Len(names) > Len(cols) THEN "IndexError"  \* row[j], j past the columns
        ELSE IF GridLen(cols) > N THEN "AttributeError"
        ELSE "none"

\* a filter that keeps the runs for which a condition holds and drops the others
RECURSIVE CondLoopKeepsOnTrue(_, _, _)
CondLoopKeepsOnTrue(run, conds, acc) ==
    IF conds = << >> THEN acc
    ELSE CondLoopKeepsOnTrue(run, Tail(conds),
                  IF ~CondHolds(conds[1], run.row) THEN Append(acc, run.key) ELSE acc)

\* lines 117-127: a key is appended once per condition that holds for it
RECURSIVE CondLoop(_, _, _)
CondLoop(run, conds, acc) ==
    IF conds = << >> THEN acc
    ELSE CondLoop(run, Tail(conds),
                  IF CondHolds(conds[1], run.row) THEN Append(acc, run.key) ELSE acc)

RECURSIVE KeysToPop(_, _, _)
KeysToPop(runs, conds, acc) ==
    IF runs = << >> THEN acc
    ELSE KeysToPop(Tail(runs), conds, CondLoop(runs[1], conds, acc))

\* lines 130-132: meshgrid.pop(key) raises KeyError for a key already popped
RECURSIVE PopLoop(_, _)
PopLoop(runs, keys) ==
    IF keys = << >> THEN [err |-> "none", meshgrid |-> runs]
    ELSE IF ~HasKey(runs, keys[1]) THEN [err |-> "KeyError", meshgrid |-> runs]
    ELSE PopLoop(SelectSeqKeyNot(runs, keys[1]), Tail(keys))

create_meshgrid_from_dict(desc, conds) ==
    LET e == EnumerationError(desc)
        runs == EnumeratedRuns(desc)
    IN  IF e # "none"
        THEN [err |-> e, meshgrid |-> << >>]
        ELSE PopLoop(runs, KeysToPop(runs, conds, << >>))

\* ------------------------------------------------------------------------
\* split_grid
\* ------------------------------------------------------------------------
NoJob == 0 - 1

\* a split that hands every leftover element to the first section
SectionSizeFirstTakesRest(n, sections, i) ==
    LET Neach == n \div sections
        extras == n % sections
    IN  IF i = 1 THEN Neach + extras ELSE Neach

\* a split that puts the larger sections last
SectionSizeExtrasLast(n, sections, i) ==
    LET Neach == n \div sections
        extras == n % sections
    IN  IF i > sections - extras THEN Neach + 1 ELSE Neach

\* np.array_split(np.arange(n), sections): extras sections of Neach + 1, then Neach
SectionSize(n, sections, i) ==
    LET Neach == n \div sections
        extras == n % sections
    IN  IF i <= extras THEN Neach + 1 ELSE Neach

RECURSIVE DivPoint(_, _, _)
DivPoint(n, sections, i) ==
    IF i = 1 THEN 0
    ELSE DivPoint(n, sections, i - 1) + SectionSize(n, sections, i - 1)

ArraySplit(n, sections) ==
    [i \in 1..sections |->
        [m \in 1..SectionSize(n, sections, i) |-> DivPoint(n, sections, i) + m - 1]]

\* an assignment that adds the batch index to the job_id already there
SetJobIdAccumulates(Grid, key, k) ==
    [i \in DOMAIN Grid |->
        IF Grid[i].key = key
        THEN [Grid[i] EXCEPT !.job_id = IF @ = NoJob THEN k ELSE @ + k + 1]
        ELSE Grid[i]]

\* the pairs <<j, k>> in the order of the two loops of lines 215-217
RECURSIVE IndexJobPairs(_, _)
IndexJobPairs(arrays, i) ==
    IF i > Len(arrays) THEN << >>
    ELSE [m \in DOMAIN arrays[i] |-> <<arrays[i][m], i - 1>>] \o IndexJobPairs(arrays, i + 1)

SetJobId(Grid, j, k) ==
    [i \in DOMAIN Grid |-> IF Grid[i].key = j THEN [Grid[i] EXCEPT !.job_id = k] ELSE Grid[i]]

\* Grid[f"{j}"]["job_id"] = k raises KeyError when the key is missing
RECURSIVE AssignLoop(_, _)
AssignLoop(Grid, pairs) ==
    IF pairs = << >> THEN [err |-> "none", Grid |-> Grid]
    ELSE IF ~HasKey(Grid, pairs[1][1]) THEN [err |-> "KeyError", Grid |-> Grid]
    ELSE AssignLoop(SetJobId(Grid, pairs[1][1], pairs[1][2]), Tail(pairs))

\* a split that stamps batch 0 on every run before it validates its arguments
split_gridStampsFirst(number_of_grids, Grid) ==
    LET stamped == [i \in DOMAIN Grid |-> [Grid[i] EXCEPT !.job_id = 0]]
    IN  IF number_of_grids <= 0 THEN [err |-> "ValueError", Grid |-> stamped]
        ELSE IF Len(Grid) = 0 THEN [err |-> "ValueError", Grid |-> stamped]
        ELSE AssignLoop(Grid, IndexJobPairs(ArraySplit(Len(Grid), number_of_grids), 1))

split_grid(number_of_grids, Grid) ==
    IF number_of_grids <= 0 THEN [err |-> "ValueError", Grid |-> Grid]
    ELSE IF Len(Grid) = 0 THEN [err |-> "ValueError", Grid |-> Grid]
    ELSE AssignLoop(Grid, IndexJobPairs(ArraySplit(Len(Grid), number_of_grids), 1))

\* ------------------------------------------------------------------------
\* MESArun.__get_non_default_values_for_namelists__
\* ------------------------------------------------------------------------
BoolVal(s) == [t |-> "bool", v |-> s]

\* the keys that are copied without a look at the defaults
\* a list of the toggles that misses the first
InlistTogglesFromSecond ==
    {"read_extra_binary_controls_inlist2", "read_extra_binary_controls_inlist3",
     "read_extra_binary_controls_inlist4", "read_extra_binary_controls_inlist5"}
ExtraInlistToggles ==
    {"read_extra_binary_controls_inlist1", "read_extra_binary_controls_inlist2",
     "read_extra_binary_controls_inlist3", "read_extra_binary_controls_inlist4",
     "read_extra_binary_controls_inlist5"}
ExtraInlistNames ==
    {"extra_binary_controls_inlist1_name", "extra_binary_controls_inlist2_name",
     "extra_binary_controls_inlist3_name", "extra_binary_controls_inlist4_name",
     "extra_binary_controls_inlist5_name"}

\* the defaults of the options of each namelist, as namelist_defaults loads them
_MESADefaults ==
    [nl \in Range(star_namelists) \cup Range(binary_namelists) |->
        CASE nl = "controls" ->
               <<[name |-> "m1", val |-> IntVal("1")],
                 [name |-> "xa(1)", val |-> IntVal("0")],
                 [name |-> "xa(2)", val |-> IntVal("0")],
                 [name |-> "xa(3)", val |-> IntVal("0")],
                 [name |-> "extra_controls_inlist1_name",
                  val |-> StrVal("#{template}/inlist_extra")]>>
          [] nl = "binary_controls" ->
               <<[name |-> "m1", val |-> IntVal("1")],
                 [name |-> "m2", val |-> IntVal("1")],
                 [name |-> "read_extra_binary_controls_inlist1", val |-> BoolVal("False")],
                 [name |-> "extra_binary_controls_inlist1_name", val |-> StrVal("")]>>
          [] OTHER -> << >>]

\* the defaults of MESAbin2dco, loaded from bin2dco_controls.defaults alone
_MESAbin2dcoDefaults ==
    [nl \in Range(bin2dco_namelists) |-> <<[name |-> "m1", val |-> IntVal("1")]>>]

\* "(" in key and ")" in key, key.split("(")[0] and f"{key_id_arr}({n})"
ArrayKeys == {"xa(1)", "xa(2)", "xa(3)"}
HasParens(key) == key \in ArrayKeys
BaseOf(key) == IF key \in ArrayKeys THEN "xa" ELSE key
IndexedKey(base, n) ==
    CASE n = 1 -> base \o "(1)"
      [] n = 2 -> base \o "(2)"
      [] n = 3 -> base \o "(3)"
      [] OTHER -> base \o "(n)"

\* key_id_arr in key, for a key of nonDefaultOptions (the name of a namelist)
NameContains(name, part) ==
    \/ name = part
    \/ part = "controls" /\ name \in {"binary_controls", "bin2dco_controls"}

\* "#{run}" in value, "#{template}" in value and value.split("/")[-1]
run_directory == "runs/0"
template_directory == "templates"
HasRunToken(text) == text \in {"#{run}/inlist_extra"}
HasTemplateToken(text) == text \in {"#{template}/inlist_extra"}
LastPathPart(text) ==
    IF HasRunToken(text) \/ HasTemplateToken(text) THEN "inlist_extra" ELSE text

SubstitutePaths(value) ==
    IF value.t # "str" THEN value
    ELSE IF HasRunToken(value.v) THEN StrVal(run_directory \o "/" \o LastPathPart(value.v))
    ELSE IF HasTemplateToken(value.v)
         THEN StrVal(template_directory \o "/" \o LastPathPart(value.v))
    ELSE value

\* float(value) of a string, which raises for the strings that are no number
ParsesAsFloat(text) == text \in {"1e3"}
FloatOfText(text) == IF text = "1e3" THEN "1000.0" ELSE text
CoerceFloat(value) ==
    IF value.t = "str" /\ ParsesAsFloat(value.v) THEN FloatVal(FloatOfText(value.v)) ELSE value

\* lines 317-326: the index that an array key gets
repetition_number(outer, key_id_arr) ==
    IF ~DictHas(outer, key_id_arr) THEN 1
    ELSE Cardinality({i \in DOMAIN outer : NameContains(outer[i].name, key_id_arr)}) + 1

\* a comparison with the defaults that finds every option different
DiffersAlways(value, default) == TRUE
Differs(value, default) == ~PyEq(value, default)

\* lines 270-335: the loop over the options of one namelist
RECURSIVE DiffOptionLoop(_, _, _, _, _, _)
DiffOptionLoop(defaultDicts, namelist, opts, i, outer, kept) ==
    IF i > Len(opts) THEN [err |-> "none", kept |-> kept]
    ELSE LET key == opts[i].name
             value == opts[i].val
             defaults == IF namelist \in DOMAIN defaultDicts THEN defaultDicts[namelist] ELSE << >>
         IN  IF key \in ExtraInlistToggles
             THEN DiffOptionLoop(defaultDicts, namelist, opts, i + 1, outer, DictPut(kept, key, value))
             ELSE IF key \in ExtraInlistNames
             THEN DiffOptionLoop(defaultDicts, namelist, opts, i + 1, outer,
                                 DictPut(kept, key, SubstitutePaths(value)))
             ELSE IF namelist \notin DOMAIN defaultDicts THEN [err |-> "TypeError", kept |-> kept]
             ELSE IF ~DictHas(defaults, key) THEN [err |-> "KeyError", kept |-> kept]
             ELSE IF Differs(value, DictGet(defaults, key))
             THEN LET newValue == CoerceFloat(SubstitutePaths(value))
                      newKey == IF HasParens(key)
                                THEN IndexedKey(BaseOf(key), repetition_number(outer, BaseOf(key)))
                                ELSE key
                  IN  DiffOptionLoop(defaultDicts, namelist, opts, i + 1, outer, DictPut(kept, newKey, newValue))
             ELSE DiffOptionLoop(defaultDicts, namelist, opts, i + 1, outer, kept)

\* lines 265-336: the loop over the requested namelists
RECURSIVE DiffNamelistLoop(_, _, _, _, _)
DiffNamelistLoop(defaultDicts, opts, nls, i, result) ==
    IF i > Len(nls) THEN [err |-> "none", nonDefaultOptions |-> result]
    ELSE LET namelist == nls[i]
             outer == DictPut(result, namelist, << >>)
         IN  IF ~DictHas(opts, namelist)
             THEN DiffNamelistLoop(defaultDicts, opts, nls, i + 1, outer)
             ELSE LET r == DiffOptionLoop(defaultDicts, namelist, DictGet(opts, namelist), 1,
                                          outer, << >>)
                  IN  IF r.err # "none"
                      THEN [err |-> r.err, nonDefaultOptions |-> << >>]
                      ELSE DiffNamelistLoop(defaultDicts, opts, nls, i + 1,
                                            DictPut(outer, namelist, r.kept))

get_non_default_values_for_namelists(opts, nls) ==
    IF Len(opts) = 0 THEN [err |-> "ValueError", nonDefaultOptions |-> << >>]
    ELSE IF "bin2dco_controls" \in Range(nls)
         THEN DiffNamelistLoop(_MESAbin2dcoDefaults, opts, nls, 1, << >>)
         ELSE DiffNamelistLoop(_MESADefaults, opts, nls, 1, << >>)

\* ------------------------------------------------------------------------
\* Namelist text.  A text is a sequence of tokens: one character each, or a
\* word that the code never looks into (a name, a literal, the words of the
\* closing comment).
\* ------------------------------------------------------------------------
NL == "\n"
DigitTokens == {"0", "1", "2", "3", "4", "5", "6", "7", "8", "9"}
NameTokens == {"controls", "star_job", "m1", "xa", "a", "b", "_is_list"}
WordTokens == DigitTokens \cup NameTokens
Whitespace == {" ", NL}

RECURSIVE Concat(_)
Concat(toks) == IF toks = << >> THEN "" ELSE toks[1] \o Concat(Tail(toks))

RECURSIVE Join(_, _)
Join(pieces, sep) ==
    IF pieces = << >> THEN << >>
    ELSE IF Len(pieces) = 1 THEN pieces[1]
    ELSE pieces[1] \o sep \o Join(Tail(pieces), sep)

\* str.split(sep): the pieces between the separators, at least one piece
RECURSIVE SplitOn(_, _)
SplitOn(text, sep) ==
    IF \A i \in DOMAIN text : text[i] # sep THEN <<text>>
    ELSE LET i == CHOOSE k \in DOMAIN text :
                      text[k] = sep /\ \A j \in 1..(k - 1) : text[j] # sep
         IN  <<SubSeq(text, 1, i - 1)>> \o SplitOn(SubSeq(text, i + 1, Len(text)), sep)

\* str.strip()
RECURSIVE Strip(_)
Strip(text) ==
    IF text = << >> THEN text
    ELSE IF text[1] \in Whitespace THEN Strip(Tail(text))
    ELSE IF text[Len(text)] \in Whitespace THEN Strip(SubSeq(text, 1, Len(text) - 1))
    ELSE text

\* str.split(): the runs of tokens between whitespace
RECURSIVE SplitWhitespace(_)
SplitWhitespace(text) ==
    LET t == Strip(text)
    IN  IF t = << >> THEN << >>
        ELSE IF \A i \in DOMAIN t : t[i] \notin Whitespace THEN <<t>>
        ELSE LET i == CHOOSE k \in DOMAIN t :
                          t[k] \in Whitespace /\ \A j \in 1..(k - 1) : t[j] \notin Whitespace
             IN  <<SubSeq(t, 1, i - 1)>> \o SplitWhitespace(SubSeq(t, i + 1, Len(t)))

Count(text, tok) == Cardinality({i \in DOMAIN text : text[i] = tok})
StartsWith(text, tok) == text # << >> /\ text[1] = tok
EndsWith(text, tok) == text # << >> /\ text[Len(text)] = tok
Replace(text, old, new) == [i \in DOMAIN text |-> IF text[i] = old THEN new ELSE text[i]]

\* ------------------------------------------------------------------------
\* parse_python_value_to_fortran and dump_dict_to_namelist_string
\* ------------------------------------------------------------------------
\* the values of the options of a namelist: the type and the tokens of str(value)
TokVal(t, toks) == [t |-> t, v |-> toks]
ListVal(vals) == [t |-> "list", v |-> vals]

\* f"{value:.10e}" of the floats of the model
FloatFormat(toks) == IF toks = <<"1", ".", "5">> THEN <<"1.5000000000e+00">> ELSE toks

\* the outcome [err, text] of parse_python_value_to_fortran
parse_python_value_to_fortran(value) ==
    CASE value.t = "bool" ->
           [err |-> "none", text |-> IF value.v = <<"True">> THEN <<".true.">> ELSE <<".false.">>]
      [] value.t = "int" -> [err |-> "none", text |-> value.v]
      [] value.t = "float" ->
           [err |-> "none",
            text |-> Replace(FloatFormat(value.v), "1.5000000000e+00", "1.5000000000d+00")]
      [] value.t = "str" -> [err |-> "none", text |-> <<"'">> \o value.v \o <<"'">>]
      [] OTHER -> [err |-> "Exception", text |-> << >>]

\* lines of a list that count the elements from 0
RECURSIVE ListLinesZeroBased(_, _, _, _)
ListLinesZeroBased(key, vals, n, array_inline) ==
    IF n > Len(vals) THEN << >>
    ELSE <<<<" ", " ", " ", key, "(">> \o <<<<"0", "1", "2", "3", "4">>[n]>> \o <<")", " ", "=", " ">>
             \o parse_python_value_to_fortran(vals[n]).text>>
           \o ListLinesZeroBased(key, vals, n + 1, array_inline)

\* the lines of a list: one line with the literals joined, or a line an element
RECURSIVE ListLines(_, _, _, _)
ListLines(key, vals, n, array_inline) ==
    IF array_inline
    THEN <<<<" ", " ", " ", key, " ", "=", " ">>
             \o Join([i \in DOMAIN vals |-> parse_python_value_to_fortran(vals[i]).text], << >>)>>
    ELSE IF n > Len(vals) THEN << >>
    ELSE <<<<" ", " ", " ", key, "(">> \o <<IntTexts[n]>> \o <<")", " ", "=", " ">>
             \o parse_python_value_to_fortran(vals[n]).text>>
           \o ListLines(key, vals, n + 1, array_inline)

\* the lines of the options from the i-th on
RECURSIVE OptionLines(_, _, _)
OptionLines(data, i, array_inline) ==
    IF i > Len(data) THEN << >>
    ELSE LET key == data[i].name
             value == data[i].val
         IN  IF value.t = "list"
             THEN ListLines(key, value.v, 1, array_inline) \o OptionLines(data, i + 1, array_inline)
             ELSE <<<<" ", " ", " ", key, " ", "=", " ">> \o parse_python_value_to_fortran(value).text>>
                    \o OptionLines(data, i + 1, array_inline)

\* a value that parse_python_value_to_fortran does not understand
Unparsable(value) ==
    IF value.t = "list"
    THEN \E i \in DOMAIN value.v : parse_python_value_to_fortran(value.v[i]).err # "none"
    ELSE parse_python_value_to_fortran(value).err # "none"

CloseLine(namelist) == <<"/", " ", "!", " end of ", namelist, " namelist">>

\* the outcome [err, text] of dump_dict_to_namelist_string
dump_dict_to_namelist_string(data, namelist, array_inline) ==
    IF namelist = "" THEN [err |-> "ValueError", text |-> << >>]
    ELSE IF Len(data) = 0
    THEN [err |-> "none", text |-> Join(<<<<"&", namelist>>, CloseLine(namelist)>>, <<NL>>) \o <<NL>>]
    ELSE IF \E i \in DOMAIN data : Unparsable(data[i].val)
    THEN [err |-> "Exception", text |-> << >>]
    ELSE [err |-> "none",
          text |-> Join(<<<<"&", namelist>>>> \o OptionLines(data, 1, array_inline)
                          \o <<CloseLine(namelist)>>, <<NL>>) \o <<NL>>]

\* ------------------------------------------------------------------------
\* parse_fortran_value_to_python
\* ------------------------------------------------------------------------
AllDigits(toks) == toks # << >> /\ \A i \in DOMAIN toks : toks[i] \in DigitTokens

RECURSIVE StripZeros(_)
StripZeros(toks) == IF Len(toks) > 1 /\ toks[1] = "0" THEN StripZeros(Tail(toks)) ELSE toks

\* int(value): digits with an optional sign
IsIntText(toks) ==
    \/ AllDigits(toks)
    \/ Len(toks) > 1 /\ toks[1] \in {"+", "-"} /\ AllDigits(Tail(toks))
IntOfText(toks) ==
    IF toks[1] = "+" THEN StripZeros(Tail(toks))
    ELSE IF toks[1] = "-" THEN <<"-">> \o StripZeros(Tail(toks))
    ELSE StripZeros(toks)

\* value.replace("d", "E") and float(tmp)
ReplaceD(toks) ==
    [i \in DOMAIN toks |->
        CASE toks[i] = "d" -> "E"
          [] toks[i] = "1.5000000000d+00" -> "1.5000000000E+00"
          [] OTHER -> toks[i]]
\* float(tmp): nan, inf, or digits with at most one point, then an exponent
PointFloat(toks) ==
    /\ \A i \in DOMAIN toks : toks[i] \in DigitTokens \cup {"."}
    /\ Count(toks, ".") <= 1
    /\ \E i \in DOMAIN toks : toks[i] \in DigitTokens
Signed(toks) == IF toks # << >> /\ toks[1] \in {"+", "-"} THEN Tail(toks) ELSE toks
FloatBody(toks) ==
    \/ PointFloat(toks)
    \/ \E i \in DOMAIN toks :
          /\ toks[i] \in {"e", "E"}
          /\ PointFloat(SubSeq(toks, 1, i - 1))
          /\ AllDigits(Signed(SubSeq(toks, i + 1, Len(toks))))
IsFloatText(toks) ==
    \/ toks = <<"1.5000000000E+00">>
    \/ Signed(toks) \in {<<"nan">>, <<"inf">>}
    \/ FloatBody(Signed(toks))
FloatOfTokens(toks) == IF toks = <<"1.5000000000E+00">> THEN <<"1", ".", "5">> ELSE toks

\* the end of the run of digits that starts at i
RECURSIVE DigitRunEnd(_, _)
DigitRunEnd(text, i) ==
    IF i < Len(text) /\ text[i + 1] \in DigitTokens THEN DigitRunEnd(text, i + 1) ELSE i

\* one side of complex_re, "\d+.?\d*": digits, any one character or none, digits
ComplexPart(toks) ==
    /\ toks # << >> /\ toks[1] \in DigitTokens
    /\ LET n == DigitRunEnd(toks, 1)
       IN  \/ n = Len(toks)
           \/ n + 1 = Len(toks) /\ toks[n + 1] # NL
           \/ toks[n + 1] # NL /\ AllDigits(SubSeq(toks, n + 2, Len(toks)))

\* the places of the "," of complex_re in a text that matches it
ComplexCommas(toks) ==
    IF Len(toks) >= 5 /\ toks[1] = "(" /\ toks[Len(toks)] = ")"
    THEN {i \in 2..(Len(toks) - 1) :
            /\ toks[i] = ","
            /\ ComplexPart(SubSeq(toks, 2, i - 1))
            /\ ComplexPart(SubSeq(toks, i + 1, Len(toks) - 1))}
    ELSE {}

\* a complex_re that takes a point and nothing else between the digits
ComplexCommasPointOnly(toks) ==
    {i \in ComplexCommas(toks) :
        /\ PointFloat(SubSeq(toks, 2, i - 1))
        /\ PointFloat(SubSeq(toks, i + 1, Len(toks) - 1))}

IsComplexText(toks) == ComplexCommas(toks) # {}

\* float(a) and float(b) of the two sides both return
ComplexConverts(toks) ==
    \E i \in ComplexCommas(toks) :
        /\ IsFloatText(SubSeq(toks, 2, i - 1))
        /\ IsFloatText(SubSeq(toks, i + 1, Len(toks) - 1))

\* the outcome [err, val] of parse_fortran_value_to_python
parse_fortran_value_to_python(value) ==
    IF IsIntText(value) THEN [err |-> "none", val |-> TokVal("int", IntOfText(value))]
    ELSE IF IsFloatText(ReplaceD(value))
    THEN [err |-> "none", val |-> TokVal("float", FloatOfTokens(ReplaceD(value)))]
    ELSE IF IsComplexText(value)
    THEN IF ComplexConverts(value)
         THEN [err |-> "none", val |-> TokVal("complex", SubSeq(value, 2, Len(value) - 1))]
         ELSE [err |-> "ValueError", val |-> TokVal("none", << >>)]
    ELSE IF value \in {<<".true.">>, <<"T">>} THEN [err |-> "none", val |-> TokVal("bool", <<"True">>)]
    ELSE IF value \in {<<".false.">>, <<"F">>} THEN [err |-> "none", val |-> TokVal("bool", <<"False">>)]
    ELSE IF StartsWith(value, "'") /\ EndsWith(value, "'") /\ Count(value, "'") = 2
    THEN [err |-> "none", val |-> TokVal("str", SubSeq(value, 2, Len(value) - 1))]
    ELSE IF StartsWith(value, "\"") /\ EndsWith(value, "\"") /\ Count(value, "\"") = 2
    THEN [err |-> "none", val |-> TokVal("str", SubSeq(value, 2, Len(value) - 1))]
    ELSE [err |-> "NoSingleValueFoundException", val |-> TokVal("none", << >>)]

\* ------------------------------------------------------------------------
\* namelist_string_to_dict
\* ------------------------------------------------------------------------
\* the lines that do not start with "!" (lines 192-197)
filtered_lines(buffer) ==
    SelectSeq(SplitOn(buffer, NL), LAMBDA line : ~StartsWith(Strip(line), "!"))

\* group_re, "&([^&]+)/": from a "&" to the last "/" before the next "&"
LastSlash(text, p) ==
    LET stop == IF \E k \in (p + 1)..Len(text) : text[k] = "&"
                THEN CHOOSE k \in (p + 1)..Len(text) :
                         text[k] = "&" /\ \A j \in (p + 1)..(k - 1) : text[j] # "&"
                ELSE Len(text) + 1
        slashes == {q \in (p + 2)..(stop - 1) : text[q] = "/"}
    IN  IF slashes = {} THEN 0 ELSE CHOOSE q \in slashes : \A r \in slashes : r <= q

RECURSIVE FindGroups(_, _)
FindGroups(text, p) ==
    IF p > Len(text) THEN << >>
    ELSE IF text[p] = "&" /\ LastSlash(text, p) # 0
    THEN <<SubSeq(text, p + 1, LastSlash(text, p) - 1)>> \o FindGroups(text, LastSlash(text, p) + 1)
    ELSE FindGroups(text, p + 1)

\* array_re, "(\w+)\((\d+)\)": the pairs <<name, index>> found in a key
RECURSIVE WordRunStart(_, _)
WordRunStart(text, i) ==
    IF i > 1 /\ text[i - 1] \in WordTokens THEN WordRunStart(text, i - 1) ELSE i

RECURSIVE FindArrayRefs(_, _)
FindArrayRefs(text, p) ==
    IF p > Len(text) THEN << >>
    ELSE IF /\ text[p] = "(" /\ p > 1 /\ text[p - 1] \in WordTokens
            /\ p < Len(text) /\ text[p + 1] \in DigitTokens
            /\ DigitRunEnd(text, p + 1) < Len(text)
            /\ text[DigitRunEnd(text, p + 1) + 1] = ")"
    THEN <<<<Concat(SubSeq(text, WordRunStart(text, p - 1), p - 1)),
             SubSeq(text, p + 1, DigitRunEnd(text, p + 1))>>>>
           \o FindArrayRefs(text, DigitRunEnd(text, p + 1) + 2)
    ELSE FindArrayRefs(text, p + 1)

\* string_re, "\'\s*\w[^']*\'": the quoted strings that start with a word character
RECURSIVE SkipSpaces(_, _)
SkipSpaces(text, i) ==
    IF i <= Len(text) /\ text[i] \in Whitespace THEN SkipSpaces(text, i + 1) ELSE i

RECURSIVE FindStrings(_, _)
FindStrings(text, p) ==
    IF p > Len(text) THEN << >>
    ELSE IF text[p] = "'" /\ \E q \in (p + 1)..Len(text) : text[q] = "'"
    THEN LET q == CHOOSE k \in (p + 1)..Len(text) :
                      text[k] = "'" /\ \A j \in (p + 1)..(k - 1) : text[j] # "'"
             w == SkipSpaces(text, p + 1)
         IN  IF w < q /\ text[w] \in WordTokens
             THEN <<SubSeq(text, p, q)>> \o FindStrings(text, q + 1)
             ELSE FindStrings(text, p + 1)
    ELSE FindStrings(text, p + 1)

\* int(variable_index) - 1 as the tokens of the number
DigitValue(tok) == CHOOSE n \in 0..9 : <<"0", "1", "2", "3", "4", "5", "6", "7", "8", "9">>[n + 1] = tok
RECURSIVE NatOfText(_)
NatOfText(toks) ==
    IF toks = << >> THEN 0
    ELSE 10 * NatOfText(SubSeq(toks, 1, Len(toks) - 1)) + DigitValue(toks[Len(toks)])
RECURSIVE TextOfNat(_)
TextOfNat(n) ==
    IF n < 0 THEN <<"-">> \o TextOfNat(0 - n)
    ELSE IF n < 10 THEN <<<<"0", "1", "2", "3", "4", "5", "6", "7", "8", "9">>[n + 1]>>
    ELSE TextOfNat(n \div 10) \o TextOfNat(n % 10)

\* group[variable_name][variable_index] = parsed_value (lines 248-252)
IsListKey == TokVal("str", <<"_is_list">>)
StoreIndexed(group, variable_name, variable_index, parsed_value) ==
    LET fresh == <<[name |-> IsListKey, val |-> TokVal("bool", <<"True">>)]>>
        entry == IF DictHas(group, variable_name) THEN DictGet(group, variable_name)
                 ELSE [t |-> "dict", v |-> fresh]
    IN  IF entry.t # "dict" THEN [err |-> "TypeError", group |-> group]
        ELSE [err |-> "none",
              group |-> DictPut(group, variable_name,
                                [t |-> "dict",
                                 v |-> DictPut(entry.v, TokVal("int", TextOfNat(variable_index)),
                                               parsed_value)])]

\* lines 256-279: the values of an inlined array
InlineEntries(variable_value) ==
    IF Count(variable_value, "'") \in {0, 2}
    THEN IF Count(variable_value, "(") # 0 THEN SplitWhitespace(variable_value)
         ELSE SplitWhitespace(Replace(variable_value, ",", " "))
    ELSE [i \in DOMAIN FindStrings(variable_value, 1) |-> Strip(FindStrings(variable_value, 1)[i])]

RECURSIVE StoreInline(_, _, _, _)
StoreInline(group, variable_name, entries, i) ==
    IF i > Len(entries) THEN [err |-> "none", group |-> group]
    ELSE LET r == parse_fortran_value_to_python(entries[i])
         IN  IF r.err # "none" THEN [err |-> r.err, group |-> group]
             ELSE LET st == StoreIndexed(group, variable_name, i - 1, r.val)
                  IN  IF st.err # "none" THEN st
                      ELSE StoreInline(st.group, variable_name, entries, i + 1)

\* lines 207-221: the lines with one "=", a line without it joins the line before
RECURSIVE BlockLines(_, _, _)
BlockLines(raw, i, block_lines) ==
    IF i > Len(raw) THEN [err |-> "none", lines |-> block_lines]
    ELSE LET line == Strip(raw[i])
         IN  IF line = << >> \/ StartsWith(line, "!") THEN BlockLines(raw, i + 1, block_lines)
             ELSE IF Len(SplitOn(line, "=")) = 2 THEN BlockLines(raw, i + 1, Append(block_lines, line))
             ELSE IF block_lines = << >> THEN [err |-> "IndexError", lines |-> block_lines]
             ELSE IF EndsWith(block_lines[Len(block_lines)], ",")
             THEN BlockLines(raw, i + 1,
                             [block_lines EXCEPT ![Len(block_lines)] = @ \o line])
             ELSE [err |-> "ValueError", lines |-> block_lines]

\* lines 224-279: one line of a block
ParseLine(group, rawline) ==
    LET noComma == IF EndsWith(rawline, ",") THEN SubSeq(rawline, 1, Len(rawline) - 1) ELSE rawline
        line == IF Count(noComma, "!") > 0 THEN Strip(SplitOn(noComma, "!")[1]) ELSE noComma
        parts == SplitOn(line, "=")
    IN  IF Len(parts) # 2 THEN [err |-> "ValueError", group |-> group]
        ELSE LET k == parts[1]
                 variable_value == Strip(parts[2])
                 variable_name_groups == FindArrayRefs(k, 1)
                 indexed == Len(variable_name_groups) = 1
                 variable_name == IF indexed THEN variable_name_groups[1][1] ELSE Concat(Strip(k))
                 r == parse_fortran_value_to_python(variable_value)
             IN  IF r.err = "none"
                 THEN IF indexed
                      THEN StoreIndexed(group, variable_name,
                                        NatOfText(variable_name_groups[1][2]) - 1, r.val)
                      ELSE [err |-> "none", group |-> DictPut(group, variable_name, r.val)]
                 ELSE IF r.err = "NoSingleValueFoundException"
                 THEN StoreInline(group, variable_name, InlineEntries(variable_value), 1)
                 ELSE [err |-> r.err, group |-> group]

RECURSIVE ParseLines(_, _, _)
ParseLines(group, block_lines, i) ==
    IF i > Len(block_lines) THEN [err |-> "none", group |-> group]
    ELSE LET r == ParseLine(group, block_lines[i])
         IN  IF r.err # "none" THEN r ELSE ParseLines(r.group, block_lines, i + 1)

\* lines 199-291: the first block is parsed and the dict with it is returned;
\* without a block the loop is not entered and the function returns None
ParseFirstBlock(group_block) ==
    LET block_lines_raw == SplitOn(group_block, NL)
        group_name == Concat(Strip(block_lines_raw[1]))
        bl == BlockLines(Tail(block_lines_raw), 1, << >>)
        r == ParseLines(<< >>, bl.lines, 1)
    IN  IF bl.err # "none" THEN [err |-> bl.err, isNone |-> FALSE, namelists |-> << >>]
        ELSE IF r.err # "none" THEN [err |-> r.err, isNone |-> FALSE, namelists |-> << >>]
        ELSE [err |-> "none", isNone |-> FALSE,
              namelists |-> <<[name |-> IF DictHas(r.group, group_name)
                                        THEN group_name \o "0" ELSE group_name,
                               val |-> r.group]>>]

ParseBlocks(group_blocks) ==
    IF group_blocks = << >> THEN [err |-> "none", isNone |-> TRUE, namelists |-> << >>]
    ELSE ParseFirstBlock(group_blocks[1])

namelist_string_to_dict(buffer) ==
    IF buffer = << >> THEN [err |-> "ValueError", isNone |-> FALSE, namelists |-> << >>]
    ELSE ParseBlocks(FindGroups(Join(filtered_lines(buffer), <<NL>>), 1))

\* ------------------------------------------------------------------------
\* The sqlite table: Database (io/db.py) and create_database /
\* insert_into_database (io/database.py).  A table is whether it exists, whether
\* its id is a primary key and its name unique, its rows and its indexes.
\* ------------------------------------------------------------------------
NoTable == [exists |-> FALSE, keyed |-> FALSE, rows |-> << >>, indexes |-> {}]

\* CREATE TABLE IF NOT EXISTS
CreateIfAbsent(db, keyed) ==
    IF db.exists THEN db ELSE [exists |-> TRUE, keyed |-> keyed, rows |-> << >>, indexes |-> {}]

\* Database.create_table
create_table(db) == [err |-> "none", db |-> CreateIfAbsent(db, FALSE)]

\* Database.drop_table: DROP TABLE IF EXISTS
drop_table(db) == [err |-> "none", db |-> NoTable]

\* INSERT INTO of a row
InsertRow(db, row) ==
    IF ~db.exists THEN [err |-> "OperationalError", db |-> db]
    ELSE IF db.keyed /\ \E i \in DOMAIN db.rows :
                            db.rows[i].id = row.id \/ db.rows[i].name = row.name
    THEN [err |-> "IntegrityError", db |-> db]
    ELSE [err |-> "none", db |-> [db EXCEPT !.rows = Append(@, row)]]

\* Database.insert_record
insert_record(db, row) == InsertRow(db, row)

\* insert_into_database
insert_into_database(db, row) == InsertRow(db, row)

\* create_database: the table is dropped when asked, created when absent, and
\* the index name_index is created on its column run_name, which a table of
\* Database.create_table does not have
create_database(db, drop) ==
    LET kept == IF drop THEN NoTable ELSE db
        made == CreateIfAbsent(kept, TRUE)
    IN  IF "name_index" \in made.indexes \/ ~made.keyed
        THEN [err |-> "OperationalError", db |-> made]
        ELSE [err |-> "none", db |-> [made EXCEPT !.indexes = @ \cup {"name_index"}]]

\* the columns of the table that Database.create_table makes for the dict of
\* dump_MESAmodels_to_database (lines 191-198 of mesa/__init__.py)
TableColumns == {"id", "model_name", "template_directory", "runs_directory", "job_id", "status"}

\* Database.fetch with the constraint "column = value": the rows selected, or
\* the OperationalError of sqlite for a table or a column that does not exist
fetch(db, column, value) ==
    IF ~db.exists \/ column \notin TableColumns THEN [err |-> "OperationalError", rows |-> << >>]
    ELSE [err |-> "none",
          rows |-> SelectSeq(db.rows, LAMBDA row : column = "id" /\ row.id = value)]

\* Database.model_present: the OperationalError is caught and leaves has_data False
model_present(db, model_id) ==
    LET r == fetch(db, "model_id", model_id)
    IN  IF r.err = "OperationalError" THEN FALSE ELSE Len(r.rows) > 0

NotAsked == [model_id |-> -1, value |-> FALSE]

\* the row of a model (lines 191-199); the name of the model is that of its key
TableRow(model) ==
    [id |-> model.key, name |-> model.key, job_id |-> model.job_id, status |-> "not computed"]

\* lines 189-210: the table is created before the first row is inserted
RECURSIVE DumpLoop(_, _, _)
DumpLoop(db, models, i) ==
    IF i > Len(models) THEN [err |-> "none", db |-> db]
    ELSE IF models[i].job_id = NoJob THEN [err |-> "KeyError", db |-> db]
    ELSE LET made == IF i = 1 THEN create_table(db).db ELSE db
             r == insert_record(made, TableRow(models[i]))
         IN  IF r.err # "none" THEN r ELSE DumpLoop(r.db, models, i + 1)

\* MESAGrid.dump_MESAmodels_to_database
dump_MESAmodels_to_database(db, models, drop) ==
    DumpLoop(IF drop THEN drop_table(db).db ELSE db, models, 1)

\* ------------------------------------------------------------------------
\* MESArun.__init__: the name of a run
\* ------------------------------------------------------------------------
\* a search of the option in the namelist controls alone
FoundInControls(key) == key \in MESADefaults["controls"]

\* lines 183-186: the option is an option of a namelist of the defaults
found_variable_name(key) == \E namelist \in DOMAIN MESADefaults : key \in MESADefaults[namelist]

\* f"{value}" of an element of the grid
FormatValue(value) ==
    CASE value.t = "int" -> value.v
      [] value.t = "float" -> value.v
      [] value.t = "str" -> value.v

\* lines 181-197: f"{key}_{value}_" of every option that was found
RECURSIVE run_name_from_kwargs(_, _)
run_name_from_kwargs(kwargs, i) ==
    IF i > Len(kwargs) THEN << >>
    ELSE (IF found_variable_name(kwargs[i].name)
          THEN <<kwargs[i].name, "_", FormatValue(kwargs[i].val), "_">>
          ELSE << >>) \o run_name_from_kwargs(kwargs, i + 1)

\* lines 201-204 without a custom name: the last "_" is cut
run_name(kwargs) ==
    LET toks == run_name_from_kwargs(kwargs, 1)
    IN  Concat(SubSeq(toks, 1, Len(toks) - 1))

\* ------------------------------------------------------------------------
\* State
\* ------------------------------------------------------------------------
VARIABLES
    d,               \* the grid description loaded from the meshgrid file
    pc,              \* position of the driver
    is_okay,         \* result of check_for_valid_namelist_options
    conditions,      \* conditions handed to create_meshgrid_from_dict
    meshgrid,        \* Manager.meshgrid (None is kept as the empty dict)
    MESAmodels,      \* MESAGrid.MESAmodels: records [key, job_id]
    number_of_jobs,  \* number_of_grids handed to split_grid
    err,             \* exception that ended the run, "none" otherwise
    Options,         \* Options handed to __get_non_default_values_for_namelists__
    requested,       \* its argument namelists
    nonDefaultOptions,  \* the dict it returns
    data,            \* the namelists to save: namelist -> (option -> value)
    buffer,          \* the text written for them
    parsed,          \* what namelist_string_to_dict returns for the text
    database,        \* the table of the models in the sqlite file
    files,           \* the files written and the commands launched, in order
    has_data         \* the last call of Database.model_present: its model_id and what it returned

differVars == <<Options, requested, nonDefaultOptions>>
codecVars == <<data, buffer, parsed>>
driverVars == <<d, is_okay, conditions, meshgrid, MESAmodels, number_of_jobs>>
vars == <<pc, err, driverVars, differVars, codecVars, database, files, has_data>>

\* the variables of the codec before it is called
NotParsed == [isNone |-> FALSE, namelists |-> << >>]
CodecIdle == data = << >> /\ buffer = << >> /\ parsed = NotParsed

\* the variables of the differ before it is called
DifferIdle == Options = << >> /\ requested = << >> /\ nonDefaultOptions = << >>

Init ==
    /\ d \in DriverDescriptions(MaxGroups)
    /\ pc = "start"
    /\ is_okay = TRUE
    /\ conditions = << >>
    /\ meshgrid = << >>
    /\ MESAmodels = << >>
    /\ number_of_jobs = 0
    /\ err = "none"
    /\ DifferIdle
    /\ CodecIdle
    /\ database = NoTable
    /\ files = << >>
    /\ has_data = NotAsked

\* Manager.set_meshgrid, lines 171-175: validation, sys.exit(1) when it fails
CheckMeshgrid ==
    /\ pc = "start"
    /\ is_okay' = check_for_valid_namelist_options(d)
    /\ pc' = IF check_for_valid_namelist_options(d) THEN "checked" ELSE "exit"
    /\ UNCHANGED <<d, conditions, meshgrid, MESAmodels, number_of_jobs, err>>
    /\ UNCHANGED <<differVars, codecVars, database, files>>
    /\ UNCHANGED has_data

\* Manager.set_meshgrid, line 177
SetMeshgrid(conds) ==
    /\ pc = "checked"
    /\ conditions' = conds
    /\ LET res == create_meshgrid_from_dict(d, conds)
       IN  /\ err' = res.err
           /\ meshgrid' = IF res.err = "none" THEN res.meshgrid ELSE meshgrid
           /\ pc' = IF res.err = "none" THEN "meshgrid" ELSE "raised"
    /\ UNCHANGED <<d, is_okay, MESAmodels, number_of_jobs>>
    /\ UNCHANGED <<differVars, codecVars, database, files>>
    /\ UNCHANGED has_data

\* MESAGrid.create_MESAmodels
CreateMESAmodels ==
    /\ pc = "meshgrid"
    /\ IF Len(meshgrid) = 0
       THEN /\ pc' = "exit"
            /\ UNCHANGED MESAmodels
       ELSE /\ pc' = "models"
            /\ MESAmodels' = [i \in DOMAIN meshgrid |-> [key |-> meshgrid[i].key, job_id |-> NoJob]]
    /\ UNCHANGED <<d, is_okay, conditions, meshgrid, number_of_jobs, err>>
    /\ UNCHANGED <<differVars, codecVars, database, files>>
    /\ UNCHANGED has_data

\* MESAGrid.split_MESAmodels
SplitMESAmodels(n) ==
    /\ pc = "models"
    /\ number_of_jobs' = n
    /\ LET res == split_grid(n, MESAmodels)
       IN  /\ err' = res.err
           /\ MESAmodels' = res.Grid
           /\ pc' = IF res.err = "none" THEN "split" ELSE "raised"
    /\ UNCHANGED <<d, is_okay, conditions, meshgrid>>
    /\ UNCHANGED <<differVars, codecVars, database, files>>
    /\ UNCHANGED has_data

\* Manager.split_MESAruns called on the collection that a first call returned
split_MESAruns(n) ==
    /\ pc = "split"
    /\ number_of_jobs' = n
    /\ LET res == split_grid(n, MESAmodels)
       IN  /\ err' = res.err
           /\ MESAmodels' = res.Grid
           /\ pc' = IF res.err = "none" THEN "resplit" ELSE "raised"
    /\ UNCHANGED <<d, is_okay, conditions, meshgrid>>
    /\ UNCHANGED <<differVars, codecVars, database, files>>
    /\ UNCHANGED has_data

Next ==
    \/ CheckMeshgrid
    \/ \E conds \in ConditionLists : SetMeshgrid(conds)
    \/ CreateMESAmodels
    \/ \E n \in 0..MaxJobs : SplitMESAmodels(n)

Spec == Init /\ [][Next]_vars

\* ------------------------------------------------------------------------
\* create_meshgrid_from_dict alone, on the descriptions that pass validation
\* ------------------------------------------------------------------------
InitGrid ==
    /\ d \in GridDescriptions(MaxGroups)
    /\ pc = "checked"
    /\ is_okay = check_for_valid_namelist_options(d)
    /\ conditions = << >>
    /\ meshgrid = << >>
    /\ MESAmodels = << >>
    /\ number_of_jobs = 0
    /\ err = "none"
    /\ DifferIdle
    /\ CodecIdle
    /\ database = NoTable
    /\ files = << >>
    /\ has_data = NotAsked

NextGrid == \E conds \in ConditionLists : SetMeshgrid(conds)

SpecGrid == InitGrid /\ [][NextGrid]_vars

\* ------------------------------------------------------------------------
\* split_grid alone, on any collection of at most MaxRuns models
\* ------------------------------------------------------------------------
\* the keys of a collection, in increasing order as enumeration leaves them
RECURSIVE SortedKeys(_)
SortedKeys(S) ==
    IF S = {} THEN << >>
    ELSE LET m == CHOOSE x \in S : \A y \in S : x <= y
         IN  <<m>> \o SortedKeys(S \ {m})

InitSplit ==
    /\ d = << >>
    /\ pc = "models"
    /\ is_okay = TRUE
    /\ conditions = << >>
    /\ meshgrid = << >>
    /\ \E S \in SUBSET (0..(MaxRuns - 1)) :
          MESAmodels = [i \in 1..Cardinality(S) |-> [key |-> SortedKeys(S)[i], job_id |-> NoJob]]
    /\ number_of_jobs = 0
    /\ err = "none"
    /\ DifferIdle
    /\ CodecIdle
    /\ database = NoTable
    /\ files = << >>
    /\ has_data = NotAsked

NextSplit ==
    \/ \E n \in 0..MaxSplit : SplitMESAmodels(n)
    \/ \E n \in 0..MaxSplit : split_MESAruns(n)

SpecSplit == InitSplit /\ [][NextSplit]_vars

\* ------------------------------------------------------------------------
\* __get_non_default_values_for_namelists__ alone
\* ------------------------------------------------------------------------
\* the options and the values that the compared dicts hold
DifferPairs ==
    {[name |-> "m1", val |-> v] : v \in {IntVal("1"), IntVal("2"), StrVal("1e3")}}
      \cup {[name |-> "xa(1)", val |-> v] : v \in {IntVal("0"), IntVal("5")}}
      \cup {[name |-> "xa(2)", val |-> v] : v \in {IntVal("0"), IntVal("6")}}
      \cup {[name |-> "read_extra_binary_controls_inlist1", val |-> v] :
               v \in {BoolVal("False"), BoolVal("True")}}
      \cup {[name |-> "extra_binary_controls_inlist1_name", val |-> v] :
               v \in {StrVal(""), StrVal("#{run}/inlist_extra")}}
      \cup {[name |-> "extra_controls_inlist1_name", val |-> v] :
               v \in {StrVal("#{template}/inlist_extra"), StrVal("#{run}/inlist_extra")}}

\* the dicts of at most n of these options
DifferOptionDicts(n) ==
    {s \in UNION {[1..k -> DifferPairs] : k \in 0..n} : DistinctNames(s)}

\* the dicts with the namelists controls and binary_controls, or one of them, or
\* none, that hold at most n options in a namelist and n + 1 in all
DifferOptions(n) ==
    {<< >>}
      \cup {<<[name |-> g, val |-> o]>> :
               g \in {"controls", "binary_controls"}, o \in DifferOptionDicts(n)}
      \cup {<<[name |-> "controls", val |-> o[1]], [name |-> "binary_controls", val |-> o[2]]>> :
               o \in {p \in DifferOptionDicts(n) \X DifferOptionDicts(n) :
                         Len(p[1]) + Len(p[2]) <= n + 1}}

\* the lists of namelists that set_template_namelists and set_run_namelists hand in
RequestedLists == {star_namelists, binary_namelists, bin2dco_namelists}

InitDiffer ==
    /\ pc = "differ"
    /\ err = "none"
    /\ d = << >>
    /\ is_okay = TRUE
    /\ conditions = << >>
    /\ meshgrid = << >>
    /\ MESAmodels = << >>
    /\ number_of_jobs = 0
    /\ Options \in DifferOptions(MaxOptsPerGroup)
    /\ requested = << >>
    /\ nonDefaultOptions = << >>
    /\ CodecIdle
    /\ database = NoTable
    /\ files = << >>
    /\ has_data = NotAsked

GetNonDefaultValues(nls) ==
    /\ pc = "differ"
    /\ requested' = nls
    /\ LET res == get_non_default_values_for_namelists(Options, nls)
       IN  /\ err' = res.err
           /\ nonDefaultOptions' = res.nonDefaultOptions
           /\ pc' = IF res.err = "none" THEN "differed" ELSE "raised"
    /\ UNCHANGED <<Options, driverVars, codecVars, database, files>>
    /\ UNCHANGED has_data

NextDiffer == \E nls \in RequestedLists : GetNonDefaultValues(nls)

SpecDiffer == InitDiffer /\ [][NextDiffer]_vars

\* ------------------------------------------------------------------------
\* The namelists written to a file and read back
\* ------------------------------------------------------------------------
CodecValues ==
    {TokVal("int", <<"1">>), TokVal("bool", <<"True">>), TokVal("float", <<"1", ".", "5">>),
     TokVal("str", <<"a">>), TokVal("str", <<"a", "/", "b">>),
     TokVal("str", <<"a", "=", "b">>), TokVal("str", <<"a", "!", "b">>),
     ListVal(<<TokVal("int", <<"1">>), TokVal("int", <<"2">>)>>),
     TokVal("NoneType", <<"None">>)}

\* the dicts of at most n options
CodecOptionDicts(n) ==
    {s \in UNION {[1..k -> [name : {"m1", "xa"}, val : CodecValues]] : k \in 0..n} :
        DistinctNames(s)}

\* the dicts of at most k namelists that hold at most n options in all
CodecData(k, n) ==
    {<< >>}
      \cup {<<[name |-> g, val |-> o]>> : g \in {"controls", "star_job"}, o \in CodecOptionDicts(n)}
      \cup {<<[name |-> g[1], val |-> o[1]], [name |-> g[2], val |-> o[2]]>> :
               g \in {<<"controls", "star_job">>, <<"star_job", "controls">>},
               o \in {p \in CodecOptionDicts(n) \X CodecOptionDicts(n) :
                         k >= 2 /\ Len(p[1]) + Len(p[2]) <= n}}

InitCodec ==
    /\ pc = "codec"
    /\ err = "none"
    /\ d = << >>
    /\ is_okay = TRUE
    /\ conditions = << >>
    /\ meshgrid = << >>
    /\ MESAmodels = << >>
    /\ number_of_jobs = 0
    /\ DifferIdle
    /\ data \in CodecData(MaxGroups, MaxOptsPerGroup)
    /\ buffer = << >>
    /\ parsed = NotParsed
    /\ database = NoTable
    /\ files = << >>
    /\ has_data = NotAsked

\* MESArun.save_namelists_to_file, lines 777-784: the strings of the namelists
\* one after the other
RECURSIVE DumpAll(_, _, _)
DumpAll(namelists_for, i, text) ==
    IF i > Len(namelists_for) THEN [err |-> "none", text |-> text]
    ELSE LET r == dump_dict_to_namelist_string(namelists_for[i].val, namelists_for[i].name, FALSE)
         IN  IF r.err # "none" THEN [err |-> r.err, text |-> text]
             ELSE DumpAll(namelists_for, i + 1, text \o r.text)

SaveNamelists ==
    /\ pc = "codec"
    /\ LET r == DumpAll(data, 1, << >>)
       IN  /\ err' = r.err
           /\ buffer' = IF r.err = "none" THEN r.text ELSE buffer
           /\ pc' = IF r.err = "none" THEN "dumped" ELSE "raised"
    /\ UNCHANGED <<data, parsed, driverVars, differVars, database, files>>
    /\ UNCHANGED has_data

LoadNamelists ==
    /\ pc = "dumped"
    /\ LET r == namelist_string_to_dict(buffer)
       IN  /\ err' = r.err
           /\ parsed' = [isNone |-> r.isNone, namelists |-> r.namelists]
           /\ pc' = IF r.err = "none" THEN "parsed" ELSE "raised"
    /\ UNCHANGED <<data, buffer, driverVars, differVars, database, files>>
    /\ UNCHANGED has_data

NextCodec == SaveNamelists \/ LoadNamelists

SpecCodec == InitCodec /\ [][NextCodec]_vars

\* ------------------------------------------------------------------------
\* run() of __main__.py executed again and again on one database file
\* ------------------------------------------------------------------------
\* MESAGrid.__init__ and create_MESAmodels of one execution: the file of the
\* database is removed when asked, and the models of the meshgrid are created
NewMESAGrid(N, remove_database) ==
    /\ pc \in {"start", "dumped", "asked", "raised"}
    /\ pc' = "models"
    /\ err' = "none"
    /\ database' = IF remove_database THEN NoTable ELSE database
    /\ MESAmodels' = [i \in 1..N |-> [key |-> i - 1, job_id |-> NoJob]]
    /\ number_of_jobs' = 0
    /\ UNCHANGED <<d, is_okay, conditions, meshgrid>>
    /\ UNCHANGED <<differVars, codecVars, files>>
    /\ has_data' = NotAsked

\* MESAGrid.dump_MESAmodels_to_database, called by run() after split_MESAmodels
DumpMESAmodels(drop) ==
    /\ pc = "split"
    /\ Len(database.rows) <= MaxRuns
    /\ LET res == dump_MESAmodels_to_database(database, MESAmodels, drop)
       IN  /\ err' = res.err
           /\ database' = res.db
           /\ pc' = IF res.err = "none" THEN "dumped" ELSE "raised"
    /\ UNCHANGED <<driverVars, differVars, codecVars, files>>
    /\ UNCHANGED has_data

\* Database.model_present on the table that the dump left
ModelPresent(model_id) ==
    /\ pc = "dumped"
    /\ has_data' = [model_id |-> model_id, value |-> model_present(database, model_id)]
    /\ pc' = "asked"
    /\ UNCHANGED <<err, driverVars, differVars, codecVars, database, files>>

InitRun ==
    /\ d = << >>
    /\ pc = "start"
    /\ is_okay = TRUE
    /\ conditions = << >>
    /\ meshgrid = << >>
    /\ MESAmodels = << >>
    /\ number_of_jobs = 0
    /\ err = "none"
    /\ DifferIdle
    /\ CodecIdle
    /\ database = NoTable
    /\ files = << >>
    /\ has_data = NotAsked

NextRun ==
    \/ \E N \in 1..MaxRuns, remove_database \in BOOLEAN : NewMESAGrid(N, remove_database)
    \/ \E n \in 0..MaxSplit : SplitMESAmodels(n)
    \/ \E drop \in BOOLEAN : DumpMESAmodels(drop)
    \/ \E model_id \in (-1)..MaxRuns : ModelPresent(model_id)

SpecRun == InitRun /\ [][NextRun]_vars

\* ------------------------------------------------------------------------
\* The operations on the table alone; pc is the operation that ran last
\* ------------------------------------------------------------------------
DbPcs == {"db", "create_table", "drop_table", "insert_record", "create_database",
          "insert_into_database"}

\* the rows that are inserted
DbRows == {TableRow([key |-> k, job_id |-> j]) : k \in 0..(MaxRows - 1), j \in 0..(MaxJobs - 1)}

CreateTable ==
    /\ pc \in DbPcs
    /\ pc' = "create_table"
    /\ err' = create_table(database).err
    /\ database' = create_table(database).db
    /\ UNCHANGED <<driverVars, differVars, codecVars, files>>
    /\ UNCHANGED has_data

DropTable ==
    /\ pc \in DbPcs
    /\ pc' = "drop_table"
    /\ err' = drop_table(database).err
    /\ database' = drop_table(database).db
    /\ UNCHANGED <<driverVars, differVars, codecVars, files>>
    /\ UNCHANGED has_data

InsertRecord(row) ==
    /\ pc \in DbPcs
    /\ Len(database.rows) < MaxRows
    /\ pc' = "insert_record"
    /\ err' = insert_record(database, row).err
    /\ database' = insert_record(database, row).db
    /\ UNCHANGED <<driverVars, differVars, codecVars, files>>
    /\ UNCHANGED has_data

CreateDatabase(drop) ==
    /\ pc \in DbPcs
    /\ pc' = "create_database"
    /\ err' = create_database(database, drop).err
    /\ database' = create_database(database, drop).db
    /\ UNCHANGED <<driverVars, differVars, codecVars, files>>
    /\ UNCHANGED has_data

InsertIntoDatabase(row) ==
    /\ pc \in DbPcs
    /\ Len(database.rows) < MaxRows
    /\ pc' = "insert_into_database"
    /\ err' = insert_into_database(database, row).err
    /\ database' = insert_into_database(database, row).db
    /\ UNCHANGED <<driverVars, differVars, codecVars, files>>
    /\ UNCHANGED has_data

InitDb ==
    /\ d = << >>
    /\ pc = "db"
    /\ is_okay = TRUE
    /\ conditions = << >>
    /\ meshgrid = << >>
    /\ MESAmodels = << >>
    /\ number_of_jobs = 0
    /\ err = "none"
    /\ DifferIdle
    /\ CodecIdle
    /\ database = NoTable
    /\ files = << >>
    /\ has_data = NotAsked

NextDb ==
    \/ CreateTable
    \/ DropTable
    \/ \E row \in DbRows : InsertRecord(row)
    \/ \E drop \in BOOLEAN : CreateDatabase(drop)
    \/ \E row \in DbRows : InsertIntoDatabase(row)

SpecDb == InitDb /\ [][NextDb]_vars

\* ------------------------------------------------------------------------
\* run() of __main__.py on a meshgrid, then the submission of one job
\* ------------------------------------------------------------------------
\* the row of the meshgrid that a model was made from, and the name of its run
RowOfKey(mg, key) == mg[CHOOSE i \in DOMAIN mg : mg[i].key = key].row
ModelName(mg, key) == run_name(RowOfKey(mg, key))

\* a file that was written: what it is, the run or the job it belongs to, its lines
File(kind, key, lines) == [kind |-> kind, key |-> key, lines |-> lines]

\* lines 150-153 with the files of the runs written before those of the template
RunFilesFirst(mg) ==
    [i \in DOMAIN mg |-> File("run", mg[i].key, << >>)] \o <<File("template", mg[1].key, << >>)>>

\* lines 126-153: the files of the template are written by the first key of the
\* meshgrid, then the files of every run in the order of the keys
StructureFiles(mg) ==
    <<File("template", mg[1].key, << >>)>> \o [i \in DOMAIN mg |-> File("run", mg[i].key, << >>)]

\* MESAGrid.set_MESAmodels_structure
set_MESAmodels_structure(mg) == StructureFiles(mg)

\* lines 305-313: the names of the models whose job_id is k, in the order of the dict
RECURSIVE directory_list(_, _, _, _)
directory_list(mg, models, k, i) ==
    IF i > Len(models) THEN << >>
    ELSE (IF models[i].job_id = k THEN <<ModelName(mg, models[i].key)>> ELSE << >>)
            \o directory_list(mg, models, k, i + 1)

\* line 301: range(number_of_jobs)
JobRange(n) == 0..(n - 1)

\* MESAGrid.create_list_of_MESAruns_for_job: one file job_k.folders per k
create_list_of_MESAruns_for_job(mg, models, n) ==
    LET ks == SortedKeys(JobRange(n))
    IN  [j \in DOMAIN ks |-> File("folders", ks[j], directory_list(mg, models, ks[j], 1))]

\* MESAGrid.compile_template: self.MESAmodels["0"]
compile_template(models) ==
    IF \E i \in DOMAIN models : models[i].key = 0 THEN "none" ELSE "KeyError"

\* lines 326-340: the job_id that ends the program
JobIdRefused(job_id, n) == job_id < 0 \/ job_id > n

SetMESAmodelsStructure ==
    /\ pc = "models"
    /\ pc' = "structured"
    /\ files' = files \o set_MESAmodels_structure(meshgrid)
    /\ UNCHANGED <<err, driverVars, differVars, codecVars, database>>
    /\ UNCHANGED has_data

\* MESAGrid.split_MESAmodels, called by run() after set_MESAmodels_structure
SplitStructured(n) ==
    /\ pc = "structured"
    /\ number_of_jobs' = n
    /\ LET res == split_grid(n, MESAmodels)
       IN  /\ err' = res.err
           /\ MESAmodels' = res.Grid
           /\ pc' = IF res.err = "none" THEN "split" ELSE "raised"
    /\ UNCHANGED <<d, is_okay, conditions, meshgrid>>
    /\ UNCHANGED <<differVars, codecVars, database, files>>
    /\ UNCHANGED has_data

CreateListOfMESAruns ==
    /\ pc = "dumped"
    /\ pc' = "listed"
    /\ files' = files \o create_list_of_MESAruns_for_job(meshgrid, MESAmodels, number_of_jobs)
    /\ UNCHANGED <<err, driverVars, differVars, codecVars, database>>
    /\ UNCHANGED has_data

CompileTemplate ==
    /\ pc = "listed"
    /\ err' = compile_template(MESAmodels)
    /\ pc' = IF compile_template(MESAmodels) = "none" THEN "compiled" ELSE "raised"
    /\ UNCHANGED <<driverVars, differVars, codecVars, database, files>>
    /\ UNCHANGED has_data

\* MESAGrid.submit_specific_job up to the call of subprocess.Popen
SubmitSpecificJob(job_id) ==
    /\ pc = "compiled"
    /\ pc' = IF JobIdRefused(job_id, number_of_jobs) THEN "exit" ELSE "popen"
    /\ files' = IF JobIdRefused(job_id, number_of_jobs) THEN files
                ELSE Append(files, File("popen", job_id, << >>))
    /\ UNCHANGED <<err, driverVars, differVars, codecVars, database>>
    /\ UNCHANGED has_data

\* the descriptions and the conditions of the meshgrids that run() is given
PipeConditionLists == {<< >>} \cup {<<c>> : c \in Conditions}

InitPipe ==
    /\ d \in GridDescriptions(1)
    /\ conditions \in PipeConditionLists
    /\ create_meshgrid_from_dict(d, conditions).err = "none"
    /\ meshgrid = create_meshgrid_from_dict(d, conditions).meshgrid
    /\ pc = "meshgrid"
    /\ is_okay = TRUE
    /\ MESAmodels = << >>
    /\ number_of_jobs = 0
    /\ err = "none"
    /\ DifferIdle
    /\ CodecIdle
    /\ database = NoTable
    /\ files = << >>
    /\ has_data = NotAsked

NextPipe ==
    \/ CreateMESAmodels
    \/ SetMESAmodelsStructure
    \/ \E n \in 0..MaxSplit : SplitStructured(n)
    \/ \E drop \in BOOLEAN : DumpMESAmodels(drop)
    \/ CreateListOfMESAruns
    \/ CompileTemplate
    \/ \E job_id \in (0 - 1)..(MaxSplit + 1) : SubmitSpecificJob(job_id)

SpecPipe == InitPipe /\ [][NextPipe]_vars

\* ------------------------------------------------------------------------
\* the value parser on single values and on the line of a namelist
\* ------------------------------------------------------------------------
PartChars == {"1", "2", ".", "a", "e"}
Parts(n) == UNION {[1..k -> PartChars] : k \in 1..n}
ScalarTexts(n) ==
    Parts(n) \cup {<<".true.">>, <<"T">>, <<".false.">>, <<"F">>, <<"'", "a", "'">>,
                   <<"\"", "a", "\"">>, <<"'", "a">>, <<"1", "d", "2">>, <<"-", "1">>,
                   <<"1", ".", "5", "d", "-", "2">>, <<"nan">>}
ComplexTexts(n) == {<<"(">> \o p \o <<",">> \o q \o <<")">> : p \in Parts(n), q \in Parts(1)}
InlineTexts ==
    {s \o sep \o t : s \in {<<"1">>, <<"a">>, <<"'", "a", "'">>, <<"(", "1", ",", "2", ")">>},
                     sep \in {<<" ">>, <<",", " ">>},
                     t \in {<<"2">>, <<"1", ".", "5">>, <<"'", "b", "'">>, <<"(", "1", "a", ",", "2", ")">>}}
ValueTexts(n) == ScalarTexts(n) \cup ComplexTexts(n) \cup InlineTexts

\* a block of the group controls with the one line "m1 = value"
LineOf(value) ==
    <<"&", "controls", NL, " ", " ", "m1", " ", "=", " ">> \o value \o <<NL, "/", NL>>

\* parse_fortran_value_to_python(buffer): the value returned is kept in parsed
\* under the name of the option
ParseFortranValue ==
    /\ pc = "value"
    /\ LET r == parse_fortran_value_to_python(buffer)
       IN  /\ err' = r.err
           /\ parsed' = [isNone |-> FALSE,
                         namelists |-> IF r.err = "none" THEN <<[name |-> "m1", val |-> r.val]>>
                                       ELSE << >>]
           /\ pc' = "scalar"
    /\ UNCHANGED <<data, buffer, driverVars, differVars, database, files>>
    /\ UNCHANGED has_data

\* namelist_string_to_dict on the block with the line "m1 = buffer"
ParseNamelistLine ==
    /\ pc = "scalar"
    /\ LET r == namelist_string_to_dict(LineOf(buffer))
       IN  /\ err' = r.err
           /\ parsed' = [isNone |-> r.isNone, namelists |-> r.namelists]
           /\ pc' = IF r.err = "none" THEN "parsed" ELSE "raised"
    /\ UNCHANGED <<data, buffer, driverVars, differVars, database, files>>
    /\ UNCHANGED has_data

InitValue ==
    /\ pc = "value"
    /\ err = "none"
    /\ d = << >>
    /\ is_okay = TRUE
    /\ conditions = << >>
    /\ meshgrid = << >>
    /\ MESAmodels = << >>
    /\ number_of_jobs = 0
    /\ DifferIdle
    /\ data = << >>
    /\ buffer \in ValueTexts(MaxPart)
    /\ parsed = NotParsed
    /\ database = NoTable
    /\ files = << >>
    /\ has_data = NotAsked

NextValue == ParseFortranValue \/ ParseNamelistLine

SpecValue == InitValue /\ [][NextValue]_vars

\* ------------------------------------------------------------------------
\* MESArun.save_namelists_to_file, name_id "run", for a binary
\* ------------------------------------------------------------------------
\* a dict of dicts in memory: the outer dict holds references to the inner
\* dicts, which live in heap; dict.copy() makes a new outer dict with the
\* same references
Refs(dct) == [i \in DOMAIN dct |-> [name |-> dct[i].name, val |-> i]]
Heap(dct) == [i \in DOMAIN dct |-> dct[i].val]
Deref(heap, outer) ==
    [i \in DOMAIN outer |-> [name |-> outer[i].name, val |-> heap[outer[i].val]]]

\* if namelist not in data1: data1[namelist] = dict()
EnsureGroup(m, which, namelist) ==
    IF DictHas(m[which], namelist) THEN m
    ELSE [m EXCEPT !.heap = Append(@, << >>),
                   ![which] = Append(@, [name |-> namelist, val |-> Len(m.heap) + 1])]

\* data1[namelist][key] = value
SetOption(m, which, namelist, key, value) ==
    [m EXCEPT !.heap[DictGet(m[which], namelist)] = DictPut(@, key, value)]

\* if key not in data1[namelist]: data1[namelist][key] = value
SetDefaultOption(m, which, namelist, key, value) ==
    IF DictHas(m.heap[DictGet(m[which], namelist)], key) THEN m
    ELSE SetOption(m, which, namelist, key, value)

_defaultProjectInlistName == "inlist_project"

\* lines 831-848: the star namelists of the template are read from the run
RECURSIVE ExtraInlistPatch(_, _, _)
ExtraInlistPatch(m, namelists_for_template, i) ==
    IF i > Len(star_namelists) THEN m
    ELSE LET namelist == star_namelists[i]
         IN  IF /\ DictHas(namelists_for_template, namelist)
                /\ Len(DictGet(namelists_for_template, namelist)) > 0
             THEN LET read == "read_extra_" \o namelist \o "_inlist1"
                      name == "extra_" \o namelist \o "_inlist1_name"
                      path == TokVal("str", <<template_directory, "/", _defaultProjectInlistName>>)
                      m1 == EnsureGroup(EnsureGroup(m, "data1", namelist), "data2", namelist)
                      m2 == SetOption(m1, "data1", namelist, read, TokVal("bool", <<"True">>))
                      m3 == SetOption(m2, "data2", namelist, read, TokVal("bool", <<"True">>))
                      m4 == SetOption(m3, "data1", namelist, name, path)
                      m5 == SetOption(m4, "data2", namelist, name, path)
                  IN  ExtraInlistPatch(m5, namelists_for_template, i + 1)
             ELSE ExtraInlistPatch(m, namelists_for_template, i + 1)

\* lines 801-848: the three copies and the patches on those of the stars
PatchedCopies(namelists_for_template, namelists_for_run) ==
    LET m0 == [heap |-> Heap(namelists_for_run), data |-> Refs(namelists_for_run),
               data1 |-> Refs(namelists_for_run), data2 |-> Refs(namelists_for_run)]
        m1 == EnsureGroup(EnsureGroup(m0, "data1", "controls"), "data2", "controls")
        m2 == SetDefaultOption(m1, "data1", "controls", "log_directory", TokVal("str", <<"LOGS1">>))
        m3 == SetDefaultOption(m2, "data2", "controls", "log_directory", TokVal("str", <<"LOGS2">>))
        m4 == EnsureGroup(EnsureGroup(m3, "data1", "pgstar"), "data2", "pgstar")
    IN  ExtraInlistPatch(m4, namelists_for_template, 1)

\* lines 850-868: the string of the namelists of a copy that a file takes
InlistString(dct, wanted) ==
    DumpAll(SelectSeq(dct, LAMBDA n : n.name \in Range(wanted)), 1, << >>)

\* the attributes namelists_for_template and namelists_for_run of a MESArun
RunGroups(name, dicts) == {<< >>} \cup {<<[name |-> name, val |-> o]>> : o \in dicts}
ControlsDicts ==
    {<<[name |-> "initial_z", val |-> TokVal("int", <<z>>)]>> : z \in {"1", "2"}}
      \cup {<<[name |-> "log_directory", val |-> TokVal("str", <<"out">>)]>>,
            <<[name |-> "initial_z", val |-> TokVal("int", <<"1">>)],
              [name |-> "log_directory", val |-> TokVal("str", <<"out">>)]>>}
RunNamelists ==
    {b \o j \o c : b \in RunGroups("binary_controls", {<<[name |-> "m1", val |-> TokVal("int", <<v>>)]>> : v \in {"1", "2"}}),
                   j \in RunGroups("star_job", {<<[name |-> "xa", val |-> TokVal("bool", <<"True">>)]>>}),
                   c \in RunGroups("controls", ControlsDicts)}
TemplateNamelists ==
    RunGroups("controls", {<<[name |-> "m1", val |-> TokVal("int", <<"3">>)]>>})
      \cup RunGroups("star_job", {<<[name |-> "b", val |-> TokVal("int", <<"1">>)]>>})
Attributes(namelists_for_template, namelists_for_run) ==
    <<[name |-> "namelists_for_template", val |-> namelists_for_template],
      [name |-> "namelists_for_run", val |-> namelists_for_run]>>

\* save_namelists_to_file(name_id="run") of a binary: data holds the
\* attributes of the MESArun, files takes the three files written
SaveRunNamelists ==
    /\ pc = "run_namelists"
    /\ LET nft == DictGet(data, "namelists_for_template")
           nfr == DictGet(data, "namelists_for_run")
           m == PatchedCopies(nft, nfr)
           binary == InlistString(Deref(m.heap, m.data), binary_namelists)
           star1 == InlistString(Deref(m.heap, m.data1), star_namelists)
           star2 == InlistString(Deref(m.heap, m.data2), star_namelists)
           bad == {r.err : r \in {binary, star1, star2}} \ {"none"}
       IN  /\ data' = Attributes(nft, Deref(m.heap, Refs(nfr)))
           /\ err' = IF bad = {} THEN "none" ELSE CHOOSE e \in bad : TRUE
           /\ files' = IF bad = {}
                       THEN files \o <<File("inlist_binary", 0, binary.text),
                                       File("inlist1", 0, star1.text),
                                       File("inlist2", 0, star2.text)>>
                       ELSE files
           /\ pc' = IF bad = {} THEN "saved" ELSE "raised"
    /\ UNCHANGED <<buffer, parsed, driverVars, differVars, database>>
    /\ UNCHANGED has_data

InitSave ==
    /\ pc = "run_namelists"
    /\ err = "none"
    /\ d = << >>
    /\ is_okay = TRUE
    /\ conditions = << >>
    /\ meshgrid = << >>
    /\ MESAmodels = << >>
    /\ number_of_jobs = 0
    /\ DifferIdle
    /\ data \in {Attributes(t, r) : t \in TemplateNamelists, r \in RunNamelists}
    /\ buffer = << >>
    /\ parsed = NotParsed
    /\ database = NoTable
    /\ files = << >>
    /\ has_data = NotAsked

NextSave == SaveRunNamelists

SpecSave == InitSave /\ [][NextSave]_vars

\* ------------------------------------------------------------------------
\* Properties of split_grid (checked under SpecSplit)
\* ------------------------------------------------------------------------
KeysOf(runs) == {runs[i].key : i \in DOMAIN runs}
GapFree(runs) == KeysOf(runs) = 0..(Len(runs) - 1)
BatchSize(runs, b) == Cardinality({i \in DOMAIN runs : runs[i].job_id = b})
SplitCalled == pc \in {"split", "raised"} /\ Len(MESAmodels) >= 1

\* C1: for N >= 1 runs with identifiers 0..N-1 and B >= 1, split_grid returns,
\* every run holds one job_id in 0..B-1, and any two of the B batches (the empty
\* ones included) differ in size by at most 1.
C1_BalancedSplit ==
    (SplitCalled /\ number_of_jobs >= 1 /\ GapFree(MESAmodels)) =>
        /\ pc = "split"
        /\ \A i \in DOMAIN MESAmodels : MESAmodels[i].job_id \in 0..(number_of_jobs - 1)
        /\ \A b1, b2 \in 0..(number_of_jobs - 1) :
              BatchSize(MESAmodels, b1) - BatchSize(MESAmodels, b2) <= 1

C1_Witness ==
    /\ pc = "split" /\ GapFree(MESAmodels)
    /\ Len(MESAmodels) = 5 /\ number_of_jobs = 3
    /\ BatchSize(MESAmodels, 0) = 2 /\ BatchSize(MESAmodels, 2) = 1

\* C10: when split_grid returns, job_id does not decrease as the identifier
\* grows, the first (N mod B) batches hold ceil(N/B) runs and the others
\* floor(N/B) runs.
C10_ContiguousSlices ==
    pc = "split" =>
        LET N == Len(MESAmodels)
            B == number_of_jobs
        IN  /\ \A i, j \in DOMAIN MESAmodels :
                  MESAmodels[i].key <= MESAmodels[j].key
                      => MESAmodels[i].job_id <= MESAmodels[j].job_id
            /\ \A b \in 0..(B - 1) :
                  BatchSize(MESAmodels, b) =
                      IF b < N % B THEN (N + B - 1) \div B ELSE N \div B

C10_Witness ==
    /\ pc = "split" /\ Len(MESAmodels) = 5 /\ number_of_jobs = 3
    /\ \E i \in DOMAIN MESAmodels : MESAmodels[i].key = 2 /\ MESAmodels[i].job_id = 1

\* C11: a call of split_grid with number_of_grids <= 0 or with an empty
\* collection ends in ValueError and leaves every record of the collection as
\* it was.
C11_InvalidSplitRaises ==
    [][((pc \in {"models", "split"}) /\ pc' # pc /\ (number_of_jobs' <= 0 \/ Len(MESAmodels) = 0)) =>
          (pc' = "raised" /\ err' = "ValueError" /\ MESAmodels' = MESAmodels)]_vars

C11_Witness ==
    /\ pc = "raised" /\ err = "ValueError" /\ number_of_jobs <= 0
    /\ Len(MESAmodels) >= 2
    /\ \E i, j \in DOMAIN MESAmodels :
          MESAmodels[i].job_id = 0 /\ MESAmodels[j].job_id = 1

\* C12: a second call of split_grid with the same number of batches on the
\* collection that the first call returned returns too and gives every run
\* the job_id it had.
C12_SplitIdempotent ==
    [][(pc = "split" /\ pc' # pc /\ number_of_jobs' = number_of_jobs) =>
          (pc' = "resplit" /\ err' = "none" /\ MESAmodels' = MESAmodels)]_vars

C12_Witness ==
    /\ pc = "resplit" /\ number_of_jobs = 2 /\ Len(MESAmodels) = 3
    /\ MESAmodels[1].job_id = 0 /\ MESAmodels[3].job_id = 1

\* ------------------------------------------------------------------------
\* Properties of __get_non_default_values_for_namelists__ (checked under SpecDiffer)
\* ------------------------------------------------------------------------
NamesOf(dct) == [i \in DOMAIN dct |-> dct[i].name]
OptionsFor(nl) == IF DictHas(Options, nl) THEN DictGet(Options, nl) ELSE << >>
KeptFor(nl) == DictGet(nonDefaultOptions, nl)
PassedThrough(nl) ==
    {i \in DOMAIN OptionsFor(nl) : OptionsFor(nl)[i].name \in ExtraInlistToggles \cup ExtraInlistNames}
EqualsDefault(nl, opt) ==
    /\ nl \in DOMAIN _MESADefaults
    /\ DictHas(_MESADefaults[nl], opt.name)
    /\ PyEq(opt.val, DictGet(_MESADefaults[nl], opt.name))
Differing(nl) == {i \in DOMAIN OptionsFor(nl) : ~EqualsDefault(nl, OptionsFor(nl)[i])}

\* C13 as stated: the result has one entry for every requested namelist, no
\* option that equals its default is in it, options that all equal the
\* defaults give an empty dict for the namelist, and one option that differs
\* gives a dict with that option and its value alone.
C13_EqualToDefaultOmitted ==
    pc = "differed" =>
        /\ NamesOf(nonDefaultOptions) = requested
        /\ \A nl \in Range(requested) :
              /\ \A i \in DOMAIN OptionsFor(nl) :
                    EqualsDefault(nl, OptionsFor(nl)[i]) => ~DictHas(KeptFor(nl), OptionsFor(nl)[i].name)
              /\ Differing(nl) = {} => KeptFor(nl) = << >>
              /\ \A i \in DOMAIN OptionsFor(nl) :
                    Differing(nl) = {i} => KeptFor(nl) = <<OptionsFor(nl)[i]>>

\* C13 as the differ does it: the result has one entry for every requested
\* namelist, in the order of the request.  In a namelist an extra-inlist toggle
\* or name is kept whatever its value; any other option that equals its default
\* adds no entry; with no option kept the dict is empty; with one option that
\* differs and no extra-inlist key the dict has one entry, named as the option
\* (an indexed name becomes base(1)) and holding its value (a string may be
\* rewritten).
C13_NonDefaultsKept ==
    pc = "differed" =>
        /\ NamesOf(nonDefaultOptions) = requested
        /\ \A nl \in Range(requested) :
              LET opts == OptionsFor(nl)
                  kept == KeptFor(nl)
                  differing == Differing(nl) \ PassedThrough(nl)
              IN  /\ \A i \in PassedThrough(nl) : DictHas(kept, opts[i].name)
                  /\ \A i \in DOMAIN opts \ (differing \cup PassedThrough(nl)) :
                        ~HasParens(opts[i].name) => ~DictHas(kept, opts[i].name)
                  /\ Len(kept) <= Cardinality(differing \cup PassedThrough(nl))
                  /\ (differing \cup PassedThrough(nl)) = {} => kept = << >>
                  /\ \A i \in DOMAIN opts :
                        (differing = {i} /\ PassedThrough(nl) = {}) =>
                            /\ Len(kept) = 1
                            /\ kept[1].name = IF HasParens(opts[i].name)
                                              THEN BaseOf(opts[i].name) \o "(1)"
                                              ELSE opts[i].name
                            /\ opts[i].val.t # "str" => kept[1].val = opts[i].val

C13_Witness ==
    /\ pc = "differed" /\ requested = star_namelists
    /\ Len(OptionsFor("controls")) = 2
    /\ KeptFor("controls") = <<[name |-> "m1", val |-> IntVal("2")]>>
    /\ KeptFor("star_job") = << >>

\* C14: the array keys of one base name that differ from their defaults in a
\* namelist are kept as base(1) .. base(k), in their order, each with its value.
ArrayOptions(nl) ==
    SelectSeq(OptionsFor(nl), LAMBDA o : HasParens(o.name) /\ ~EqualsDefault(nl, o))
ArrayKept(nl) == SelectSeq(KeptFor(nl), LAMBDA o : HasParens(o.name))

C14_DistinctIndexes ==
    pc = "differed" =>
        \A nl \in Range(requested) :
            /\ Len(ArrayKept(nl)) = Len(ArrayOptions(nl))
            /\ \A k \in DOMAIN ArrayKept(nl) :
                  /\ ArrayKept(nl)[k].name = IndexedKey(BaseOf(ArrayOptions(nl)[k].name), k)
                  /\ ArrayKept(nl)[k].val = ArrayOptions(nl)[k].val

\* the keys read_extra_binary_controls_inlist1..5 and those of their names
ToggleKeys == {"read_extra_binary_controls_inlist" \o IntTexts[k] : k \in 1..5}
NameKeys == {"extra_binary_controls_inlist" \o IntTexts[k] \o "_name" : k \in 1..5}

\* C24: an extra-inlist toggle or name of a requested namelist is in the result
\* whatever its value, and a toggle has the value it came with
C24_ExtraInlistPassedThrough ==
    pc = "differed" =>
        \A nl \in Range(requested) :
            \A i \in DOMAIN OptionsFor(nl) :
                LET opt == OptionsFor(nl)[i]
                IN  /\ opt.name \in ToggleKeys \cup NameKeys => DictHas(KeptFor(nl), opt.name)
                    /\ opt.name \in ToggleKeys => DictGet(KeptFor(nl), opt.name) = opt.val

\* a toggle and a name that equal their defaults are in the result
C24_Witness ==
    /\ pc = "differed"
    /\ requested = binary_namelists
    /\ OptionsFor("binary_controls") =
          <<[name |-> "read_extra_binary_controls_inlist1", val |-> BoolVal("False")],
            [name |-> "extra_binary_controls_inlist1_name", val |-> StrVal("")]>>
    /\ KeptFor("binary_controls") = OptionsFor("binary_controls")

\* the value that holds the directory of the run or of the template and the
\* last component of a value with a placeholder
Substituted(value) ==
    IF HasRunToken(value.v) THEN StrVal("runs/0/inlist_extra")
    ELSE StrVal("templates/inlist_extra")

\* C25: a string with the placeholder of the run or of the template is replaced
\* by the directory and the last component of the string, and the option is
\* kept when the replaced value differs from the default, left out otherwise
C25_ComparedAfterSubstitution ==
    pc = "differed" =>
        \A nl \in Range(requested) :
            \A i \in DOMAIN OptionsFor(nl) :
                LET opt == OptionsFor(nl)[i]
                IN  (/\ opt.val.t = "str"
                     /\ HasRunToken(opt.val.v) \/ HasTemplateToken(opt.val.v)
                     /\ opt.name \notin ToggleKeys \cup NameKeys)
                    => IF PyEq(Substituted(opt.val), DictGet(_MESADefaults[nl], opt.name))
                       THEN ~DictHas(KeptFor(nl), opt.name)
                       ELSE /\ DictHas(KeptFor(nl), opt.name)
                            /\ DictGet(KeptFor(nl), opt.name) = Substituted(opt.val)

\* ------------------------------------------------------------------------
\* Properties of the namelist text (checked under SpecCodec)
\* ------------------------------------------------------------------------
DumpRaised == pc = "raised" /\ DumpAll(data, 1, << >>).err # "none"
LoadCalled == pc = "parsed" \/ (pc = "raised" /\ ~DumpRaised)

DictNames(dct) == {dct[i].name : i \in DOMAIN dct}
ValueEq(x, y) == x.t = y.t /\ x.v = y.v
GroupEq(a, b) ==
    /\ DictNames(a) = DictNames(b)
    /\ \A n \in DictNames(a) : ValueEq(DictGet(a, n), DictGet(b, n))
MappingEq(a, b) ==
    /\ DictNames(a) = DictNames(b)
    /\ \A n \in DictNames(a) : GroupEq(DictGet(a, n), DictGet(b, n))

AllValues(P(_)) == \A i \in DOMAIN data : \A j \in DOMAIN data[i].val : P(data[i].val[j].val)
IsIntBoolStr(x) == x.t \in {"int", "bool", "str"}
IsScalarOrList(x) ==
    IF x.t = "list" THEN \A i \in DOMAIN x.v : IsIntBoolStr(x.v[i]) ELSE IsIntBoolStr(x)
IsPlain(x) == x.t \in {"int", "bool", "float"} \/ x = TokVal("str", <<"a">>)

\* C15: the text written for a mapping whose values are integers, booleans,
\* strings or lists of them is parsed back into a mapping equal to it.
C15_RoundTrip ==
    (LoadCalled /\ AllValues(IsScalarOrList)) =>
        /\ pc = "parsed"
        /\ ~parsed.isNone
        /\ MappingEq(parsed.namelists, data)

\* C16: a text with k >= 1 blocks of distinct names is parsed into a mapping
\* with these k names in the order of the blocks, each with the options of
\* its block.
C16_EveryBlockParsed ==
    (LoadCalled /\ Len(data) >= 1 /\ AllValues(IsPlain)) =>
        /\ pc = "parsed"
        /\ ~parsed.isNone
        /\ NamesOf(parsed.namelists) = NamesOf(data)
        /\ \A i \in DOMAIN data : GroupEq(parsed.namelists[i].val, data[i].val)

\* C17: the text of a namelist is the line "&name", then for every option in
\* the order of the dict the line "   option = literal", or for a list the
\* lines "   option(i) = literal" for i = 1 .. len in the order of the
\* elements, then the line "/ ! end of name namelist"; each line ends in a
\* newline and a namelist without options gives the first and the last line.
RECURSIVE FlattenSeq(_)
FlattenSeq(ss) == IF ss = << >> THEN << >> ELSE ss[1] \o FlattenSeq(Tail(ss))

Literal(value) == parse_python_value_to_fortran(value).text
ExpectedOptionLines(opt) ==
    IF opt.val.t = "list"
    THEN [n \in DOMAIN opt.val.v |->
            <<" ", " ", " ", opt.name, "(">> \o TextOfNat(n) \o <<")", " ", "=", " ">>
              \o Literal(opt.val.v[n])]
    ELSE <<<<" ", " ", " ", opt.name, " ", "=", " ">> \o Literal(opt.val)>>
ExpectedGroupLines(g) ==
    <<<<"&", g.name>>>>
      \o FlattenSeq([i \in DOMAIN g.val |-> ExpectedOptionLines(g.val[i])])
      \o <<<<"/", " ", "!", " end of ", g.name, " namelist">>>>

C17_GroupLines ==
    pc \in {"dumped", "parsed"} =>
        SplitOn(buffer, NL) =
            FlattenSeq([i \in DOMAIN data |-> ExpectedGroupLines(data[i])]) \o << << >> >>

C17_Witness ==
    /\ pc = "dumped" /\ Len(data) = 2
    /\ data[1].val = <<[name |-> "xa",
                        val |-> ListVal(<<TokVal("int", <<"1">>), TokVal("int", <<"2">>)>>)],
                       [name |-> "m1", val |-> TokVal("str", <<"a">>)]>>
    /\ data[2].val = << >>
    /\ Len(SplitOn(buffer, NL)) = 8

\* ------------------------------------------------------------------------
\* Properties of create_meshgrid_from_dict (checked under SpecGrid)
\* ------------------------------------------------------------------------
EnumerationCalled == pc \in {"meshgrid", "raised"}
Returned == pc = "meshgrid"

HasDuplicateOption(desc) ==
    \E i, j \in DOMAIN FlatOptions(desc) :
        i # j /\ FlatOptions(desc)[i].name = FlatOptions(desc)[j].name

NoRepeatedElements(desc) ==
    \A o \in Range(FlatOptions(desc)) :
        \A a, b \in DOMAIN o.values.vals : a # b => ~PyEq(o.values.vals[a], o.values.vals[b])

\* the product of the lengths, namelist by namelist (a scalar is held as one value)
RECURSIVE LengthsProduct(_)
LengthsProduct(opts) ==
    IF opts = << >> THEN 1 ELSE Len(opts[1].values.vals) * LengthsProduct(Tail(opts))

RECURSIVE ProductOfLengths(_)
ProductOfLengths(desc) ==
    IF desc = << >> THEN 1
    ELSE LengthsProduct(desc[1].options) * ProductOfLengths(Tail(desc))

\* C3: for any grid description, enumeration without conditions returns exactly
\* N runs with identifiers 0..N-1, N the product of the lengths of the value
\* lists (a scalar counting as 1).
C3_EnumeratesProduct ==
    (EnumerationCalled /\ conditions = << >>) =>
        /\ Returned
        /\ Len(meshgrid) = ProductOfLengths(d)
        /\ KeysOf(meshgrid) = 0..(ProductOfLengths(d) - 1)

\* the choices of one position in every value list of the description
IndexTuples(desc) ==
    {c \in [DOMAIN FlatOptions(desc) -> 1..MaxLen] :
        \A j \in DOMAIN c : c[j] <= Len(FlatOptions(desc)[j].values.vals)}

RowIsTuple(row, desc, c) ==
    /\ Len(row) = Len(FlatOptions(desc))
    /\ \A j \in DOMAIN c :
          /\ DictHas(row, FlatOptions(desc)[j].name)
          /\ PyEq(DictGet(row, FlatOptions(desc)[j].name), FlatOptions(desc)[j].values.vals[c[j]])

\* C4: with distinct option names and no repeated element in a value list, the
\* runs returned without conditions are the tuples of the Cartesian product of
\* the value lists: every tuple is the mapping of exactly one run and every
\* run holds a tuple of the product.
C4_RunsAreTheProduct ==
    (Returned /\ conditions = << >> /\ ~HasDuplicateOption(d) /\ NoRepeatedElements(d)) =>
        /\ \A c \in IndexTuples(d) :
              Cardinality({i \in DOMAIN meshgrid : RowIsTuple(meshgrid[i].row, d, c)}) = 1
        /\ \A i \in DOMAIN meshgrid :
              \E c \in IndexTuples(d) : RowIsTuple(meshgrid[i].row, d, c)

\* the index tuples in the order of nested loops over the value lists, the
\* list order[1] in the outermost loop and the last one in the innermost
RECURSIVE NestedLoops(_, _, _, _)
RECURSIVE LoopBody(_, _, _, _, _)
NestedLoops(opts, order, p, partial) ==
    IF p > Len(order) THEN <<partial>> ELSE LoopBody(opts, order, p, partial, 1)
LoopBody(opts, order, p, partial, i) ==
    IF i > Len(opts[order[p]].values.vals) THEN << >>
    ELSE NestedLoops(opts, order, p + 1, [partial EXCEPT ![order[p]] = i])
            \o LoopBody(opts, order, p, partial, i + 1)

ListedOrder(n) == [p \in 1..n |-> p]
SecondThenFirstOrder(n) == IF n >= 2 THEN <<2, 1>> \o [p \in 1..(n - 2) |-> p + 2] ELSE ListedOrder(n)

\* every run of the meshgrid holds the tuple its identifier selects in tuples,
\* each value as the array of the common dtype stores it
RunsFollow(tuples) ==
    LET opts == FlatOptions(d)
        dt == CommonDType(TmpDictOf(d), "int")
    IN  \A i \in DOMAIN meshgrid :
           /\ meshgrid[i].key + 1 \in DOMAIN tuples
           /\ \A j \in DOMAIN opts :
                 /\ DictHas(meshgrid[i].row, opts[j].name)
                 /\ DictGet(meshgrid[i].row, opts[j].name)
                       = Cast(opts[j].values.vals[tuples[meshgrid[i].key + 1][j]], dt)

ListValuedOptions(desc) == {j \in DOMAIN FlatOptions(desc) : FlatOptions(desc)[j].values.list}

Surviving(runs, conds) ==
    SelectSeq(runs, LAMBDA r : \A i \in DOMAIN conds : ~CondHolds(conds[i], r.row))

\* C6: for zero, one or several conditions the call returns, and it returns
\* the enumerated runs for which no condition holds, under their identifiers.
C6_FiltersByConditions ==
    (EnumerationCalled /\ EnumerationError(d) = "none") =>
        /\ Returned
        /\ meshgrid = Surviving(EnumeratedRuns(d), conditions)

\* C7: when a condition holds for every enumerated run, the meshgrid returned
\* is empty.
C7_AlwaysTrueRemovesAll ==
    (Returned /\ \E i \in DOMAIN conditions :
                    \A r \in Range(EnumeratedRuns(d)) : CondHolds(conditions[i], r.row))
        => meshgrid = << >>

C7_Witness ==
    /\ Returned /\ conditions = <<"always">>
    /\ Len(EnumeratedRuns(d)) >= 2 /\ meshgrid = << >>

\* the values of the last option of the description that bears the name
LastValuesOf(desc, name) ==
    LET opts == FlatOptions(desc)
        last == CHOOSE j \in DOMAIN opts :
                    opts[j].name = name /\ \A m \in DOMAIN opts : opts[m].name = name => m <= j
    IN  opts[last].values.vals

DuplicatedNames(desc) ==
    {FlatOptions(desc)[i].name : i \in {a \in DOMAIN FlatOptions(desc) :
        \E b \in DOMAIN FlatOptions(desc) :
            a # b /\ FlatOptions(desc)[a].name = FlatOptions(desc)[b].name}}

\* C8: when an option name appears under two namelists, enumeration returns
\* and in every run the name holds a value of the later namelist.
C8_LastGroupWins ==
    (EnumerationCalled /\ HasDuplicateOption(d)) =>
        /\ Returned
        /\ \A i \in DOMAIN meshgrid : \A name \in DuplicatedNames(d) :
              /\ DictHas(meshgrid[i].row, name)
              /\ \E v \in Range(LastValuesOf(d, name)) :
                    PyEq(DictGet(meshgrid[i].row, name), v)

\* ------------------------------------------------------------------------
\* Properties of the driver (checked under Spec)
\* ------------------------------------------------------------------------
\* C2: after enumeration with conditions, split_grid with B >= 1 returns and
\* every run left in the collection holds one job_id in 0..B-1.
C2_FilteredRunsGetBatch ==
    (SplitCalled /\ number_of_jobs >= 1) =>
        /\ pc = "split"
        /\ \A i \in DOMAIN MESAmodels : MESAmodels[i].job_id \in 0..(number_of_jobs - 1)

AllRecognized(desc) ==
    \A i \in DOMAIN desc :
        /\ desc[i].name \in Range(star_namelists) \cup Range(binary_namelists)
        /\ \A o \in Range(desc[i].options) : o.name \in MESADefaults[desc[i].name]

\* C9: the validation answers True exactly when every namelist of the
\* description is a MESA namelist and every option is among the defaults of
\* its namelist; after the answer False the driver has exited and nothing was
\* enumerated, created or split.
C9_ValidationGuardsEnumeration ==
    /\ pc # "start" => (is_okay <=> AllRecognized(d))
    /\ ~is_okay =>
          /\ pc = "exit"
          /\ meshgrid = << >> /\ MESAmodels = << >>
          /\ conditions = << >> /\ number_of_jobs = 0 /\ err = "none"

C9_Witness ==
    /\ pc = "exit" /\ ~is_okay /\ Len(d) = 2
    /\ d[1].name = "controls" /\ d[2].name = "binary_controls"
    /\ d[1].options # << >> /\ d[1].options[1].name = "m2"

\* ------------------------------------------------------------------------
\* Properties of the database dump
\* ------------------------------------------------------------------------
\* the rows of the table whose id is that of a model
RowsOf(key) == {i \in DOMAIN database.rows : database.rows[i].id = key}

\* C18: after the dump the table holds exactly one row per model, keyed by the
\* id of the model, whose job_id is the job_id that the split gave the model
\* and whose status is "not computed"
C18_OneRowPerRun ==
    pc = "dumped" =>
        /\ Len(database.rows) = Len(MESAmodels)
        /\ \A i \in DOMAIN MESAmodels :
              /\ Cardinality(RowsOf(MESAmodels[i].key)) = 1
              /\ \A r \in RowsOf(MESAmodels[i].key) :
                    /\ database.rows[r].job_id = MESAmodels[i].job_id
                    /\ database.rows[r].job_id # NoJob
                    /\ database.rows[r].status = "not computed"

\* C20: creating the table a second time succeeds without error and leaves the
\* schema and the rows of the table unchanged: a creation that finds the table
\* that the same operation made raises nothing and changes nothing
C20_CreationIdempotent ==
    [][(/\ database.exists
        /\ \/ pc' = "create_table" /\ ~database.keyed
           \/ pc' = "create_database" /\ database.keyed)
       => (err' = "none" /\ database' = database)]_vars

\* ------------------------------------------------------------------------
\* Properties of the names of the runs
\* ------------------------------------------------------------------------
\* C19: any two distinct runs of the meshgrid have distinct names
C19_DistinctRunNames ==
    pc = "meshgrid" =>
        \A i, j \in DOMAIN meshgrid :
            i # j => run_name(meshgrid[i].row) # run_name(meshgrid[j].row)

\* ------------------------------------------------------------------------
\* Properties of run() and of the submission of a job
\* ------------------------------------------------------------------------
\* the files job_k.folders that were written
Manifests == SelectSeq(files, LAMBDA f : f.kind = "folders")

\* the places where a name is listed: <<manifest, line>>
Listings(name) ==
    {<<m, l>> \in (DOMAIN Manifests) \X (1..(MaxRuns * MaxRuns)) :
        l \in DOMAIN Manifests[m].lines /\ Manifests[m].lines[l] = name}

\* the names of the models of a job, in the order of MESAmodels
NamesOfJob(k) ==
    LET mine == SelectSeq(MESAmodels, LAMBDA model : model.job_id = k)
    IN  [i \in DOMAIN mine |-> ModelName(meshgrid, mine[i].key)]

TemplateWrites == {i \in DOMAIN files : files[i].kind = "template"}
RunWrites == {i \in DOMAIN files : files[i].kind = "run"}

\* C22: the files of the template are written exactly once, by the first run of
\* the meshgrid, after the models of all the runs were created and before any
\* file of a run; the files of the runs are then written once per run, in
\* ascending order of the identifiers
C22_TemplateOnceBeforeRuns ==
    files # << >> =>
        /\ Len(MESAmodels) = Len(meshgrid)
        /\ TemplateWrites = {1}
        /\ files[1].key = meshgrid[1].key
        /\ RunWrites = {i + 1 : i \in DOMAIN meshgrid}
        /\ \A i \in DOMAIN meshgrid : files[i + 1].key = meshgrid[i].key
        /\ \A i, j \in RunWrites : i < j => files[i].key < files[j].key

\* files were written for several runs whose first is not run 0
C22_Witness ==
    /\ pc = "structured"
    /\ Cardinality(RunWrites) >= 2
    /\ files[1].key # 0

\* the segments option_value of the options of a row, joined by "_"
RECURSIVE ExpectedName(_)
ExpectedName(row) ==
    IF row = << >> THEN ""
    ELSE IF Len(row) = 1 THEN row[1].name \o "_" \o row[1].val.v
    ELSE row[1].name \o "_" \o row[1].val.v \o "_" \o ExpectedName(Tail(row))

\* C23: the name of a run is the concatenation of option_value_ for every
\* option of its row, in the order of the row, without the last "_"; every
\* option of the row gives one segment
C23_RunNameSegments ==
    pc = "meshgrid" =>
        \A i \in DOMAIN meshgrid :
            /\ run_name(meshgrid[i].row) = ExpectedName(meshgrid[i].row)
            /\ Len(run_name_from_kwargs(meshgrid[i].row, 1)) = 4 * Len(meshgrid[i].row)

\* a run whose row holds several options, one of them of the binary alone
C23_Witness ==
    /\ pc = "meshgrid"
    /\ \E i \in DOMAIN meshgrid :
          /\ Len(meshgrid[i].row) >= 2
          /\ DictHas(meshgrid[i].row, "m2")
          /\ run_name(meshgrid[i].row) # ""

\* the scalar literal grammars: integer, float with d or e exponent, the two
\* spellings of each boolean, quoted string, parenthesized pair of reals
IsScalarLiteral(value) ==
    \/ IsIntText(value)
    \/ IsFloatText(ReplaceD(value))
    \/ value \in {<<".true.">>, <<"T">>, <<".false.">>, <<"F">>}
    \/ \E q \in {"'", "\""} : StartsWith(value, q) /\ EndsWith(value, q) /\ Count(value, q) = 2
    \/ ComplexCommasPointOnly(value) # {}

\* C26: parse_fortran_value_to_python returns a value for every text of one of
\* the scalar literal grammars and raises NoSingleValueFoundException exactly
\* for the texts of none of them; namelist_string_to_dict takes the inline
\* array path on that exception only and raises any other failure of the
\* value parser unchanged
C26_DistinguishedFailure ==
    /\ pc = "scalar" =>
          /\ IsScalarLiteral(buffer) => err = "none"
          /\ ~IsScalarLiteral(buffer) <=> err = "NoSingleValueFoundException"
    /\ (pc \in {"parsed", "raised"} /\ data = << >> /\ d = << >> /\ buffer # << >>) =>
          LET r == parse_fortran_value_to_python(buffer)
          IN  /\ r.err \notin {"none", "NoSingleValueFoundException"} => pc = "raised" /\ err = r.err
              /\ r.err = "none" => pc = "parsed"

\* the line that dump_dict_to_namelist_string writes for log_directory
LogDirectoryLine(name) ==
    OptionLines(<<[name |-> "log_directory", val |-> TokVal("str", <<name>>)]>>, 1, FALSE)[1]
Contains(text, sub) ==
    \E i \in 1..(Len(text) - Len(sub) + 1) : SubSeq(text, i, i + Len(sub) - 1) = sub
SetsLogDirectory(namelists_for_run) ==
    /\ DictHas(namelists_for_run, "controls")
    /\ DictHas(DictGet(namelists_for_run, "controls"), "log_directory")

\* C27: writing the files of the run of a binary whose namelists_for_run does
\* not set controls.log_directory gives inlist1 the log_directory 'LOGS1' and
\* inlist2 the log_directory 'LOGS2', with and without a group controls in
\* namelists_for_run, and leaves namelists_for_run as it was
C27_LogDirectoryPerStar ==
    [][(pc = "run_namelists" /\ pc' = "saved"
          /\ ~SetsLogDirectory(DictGet(data, "namelists_for_run")))
       => /\ Contains(files'[Len(files') - 1].lines, LogDirectoryLine("LOGS1"))
          /\ Contains(files'[Len(files')].lines, LogDirectoryLine("LOGS2"))
          /\ data' = data]_vars

\* C28: submit_specific_job goes on to start the process of a job only for a
\* job_id of 0..number_of_jobs-1; for a negative job_id and for a job_id of
\* number_of_jobs or more it exits before Popen
C28_JobIdInRange ==
    pc = "popen" => files[Len(files)].key \in JobRange(number_of_jobs)

\* C29: on a table that dump_MESAmodels_to_database created and filled,
\* Database.model_present(model_id, table_name) returns True exactly when the
\* table holds a row whose id is model_id
C29_PresentIffRow ==
    pc = "asked" =>
        (has_data.value <=> \E i \in DOMAIN database.rows : database.rows[i].id = has_data.model_id)

\* C30: with a meshgrid that is not empty, also one without the key 0, and a
\* number of jobs of at least one, no step of run() raises: the models get
\* their files, their job_id, their rows, their manifests, and
\* compile_template finds its model, the one whose key wrote the template
C30_PipelineCompletes ==
    /\ (pc = "raised" /\ Len(MESAmodels) > 0) => number_of_jobs <= 0
    /\ pc = "compiled" =>
          \E i \in DOMAIN files : files[i].kind = "template" /\ files[i].key = 0

====
